---- MODULE Spec2Model ----
(***************************************************************************)
(* OptiClimate classification core: operational-window masking, threshold *)
(* evaluation with limiting-parameter attribution, and the classifier     *)
(* that composes them (opticlimate/temporal, evaluate, classify).         *)
(*                                                                         *)
(* Encodings                                                               *)
(*   - an optional value (Python None / pandas NaN / absent dict key) is   *)
(*     the empty tuple <<>>; a present value x is <<x>>;                   *)
(*   - a clock string "HH:MM" is the 5-tuple of its characters, digits as  *)
(*     numbers: "09:30" is <<0, 9, ":", 3, 0>>; the empty tuple is a       *)
(*     missing/empty string;                                               *)
(*   - a timezone-aware local timestamp is the number of minutes since a   *)
(*     Monday 00:00 local time;                                            *)
(*   - a DataFrame is [columns, tz_aware, rows]; a row carries its local   *)
(*     timestamp and one optional number per weather column;               *)
(*   - a float number of hours is a whole number of 3-second units, so     *)
(*     that the median of whole-minute differences and the interpolated    *)
(*     0.5 and 0.9 quantiles of streak durations stay exact;               *)
(*   - a raised exception is a result record with status "error".          *)
(***************************************************************************)
EXTENDS Integers, Sequences, FiniteSets, TLC

VARIABLES
    truth_df,     \* the raw hourly value table handed to the core
    cfg,          \* the resolved configuration
    op_mask,      \* last OperationalMaskResult (or the exception raised)
    eval_out,     \* per scenario: last ScenarioEvaluation (or exception)
    classified,   \* per scenario: ClassificationResult.classified_df (or exception)
    hourly,       \* the classified table handed to the report aggregators
    tables,       \* the report tables built from it (or the exception raised)
    config_load   \* the raw configuration as loaded and the outcome of validating it

vars == <<truth_df, cfg, op_mask, eval_out, classified, hourly, tables, config_load>>

---------------------------------------------------------------------------
(* Generic helpers                                                         *)

NoneV == <<>>
Some(x) == <<x>>
IsNone(o) == o = <<>>
Get(o) == o[1]
\* dict.get(key, default) on an optional field
GetOr(o, default) == IF o = <<>> THEN default ELSE o[1]

SeqsUpTo(S, n) == UNION { [1..k -> S] : k \in 0..n }

Range(s) == { s[i] : i \in DOMAIN s }

---------------------------------------------------------------------------
(* opticlimate/temporal/operational_window.py                              *)

\* int() of a string of decimal digits
RECURSIVE IntOfDigits(_)
IntOfDigits(ds) ==
    IF Len(ds) = 0 THEN 0
    ELSE 10 * IntOfDigits(SubSeq(ds, 1, Len(ds) - 1)) + ds[Len(ds)]

\* hh = int(s[:2]); mm = int(s[3:])
_parse_hhmm(s) ==
    [hh |-> IntOfDigits(SubSeq(s, 1, 2)), mm |-> IntOfDigits(SubSeq(s, 4, Len(s)))]

\* pandas .dt accessors on a local timestamp
DtWeekday(t) == (t \div 1440) % 7
DtHour(t) == (t % 1440) \div 60
DtMinute(t) == t % 60

_weekdays_set(ow) ==
    IF ow.calendar_model = "custom"
    THEN Range(ow.weekdays)
    ELSE 0..6

\* base time-of-day filter: (minutes >= start_min) & (minutes < end_min)
TimeOk_EndInclusive(minutes, start_min, end_min) ==
    minutes >= start_min /\ minutes <= end_min

TimeOk(minutes, start_min, end_min) ==
    minutes >= start_min /\ minutes < end_min

\* the same-day guard on the default window: `if end_min <= start_min: raise`
NotSameDay_Strict(start_min, end_min) == end_min < start_min

NotSameDay(start_min, end_min) == end_min <= start_min

\* mask.loc[is_day] = weekday_ok.loc[is_day] & o_time_ok.loc[is_day]
OverrideRow_IgnoreCalendar(weekday_ok_i, o_time_ok_i) == o_time_ok_i

OverrideRow(weekday_ok_i, o_time_ok_i) == weekday_ok_i /\ o_time_ok_i

\* the override's `if os != "fixed_time" or oe != "fixed_time": raise`
OverrideNotFixed_StartOnly(os, oe) == os # "fixed_time"

OverrideNotFixed(os, oe) == os # "fixed_time" \/ oe # "fixed_time"

\* the `for day_key, override in weekly.items()` loop, from item k on
\* The override's own same-day check (lines 112-115); mutant: only strictly earlier ends are refused.
OverrideNotSameDay_Strict(ostart_min, oend_min) == oend_min < ostart_min

OverrideNotSameDay(ostart_min, oend_min) == oend_min <= ostart_min

RECURSIVE ApplyWeeklyOverrides(_, _, _, _, _)
ApplyWeeklyOverrides(t, ow, weekday_ok, mask, k) ==
    LET weekly == ow.weekly_overrides.items
        tb     == ow.time_bounds
    IN  IF k > Len(weekly)
        THEN [status |-> "ok", error |-> "", is_operational |-> mask,
              reason |-> "fixed_time_with_overrides"]
        ELSE
          LET override == weekly[k]
              d   == override.day_key
              os  == GetOr(override.start, tb.start)
              oe  == GetOr(override.end, tb.end)
              ost == GetOr(override.start_time, tb.start_time)
              oet == GetOr(override.end_time, tb.end_time)
              ostart_min == _parse_hhmm(ost).hh * 60 + _parse_hhmm(ost).mm
              oend_min   == _parse_hhmm(oet).hh * 60 + _parse_hhmm(oet).mm
              minutes(i) == DtHour(t[i]) * 60 + DtMinute(t[i])
              o_time_ok(i) == minutes(i) >= ostart_min /\ minutes(i) < oend_min
          IN  IF d < 0 \/ d > 6
              THEN [status |-> "error", error |-> "ValueError: weekly_overrides keys must be 0..6",
                    is_operational |-> <<>>, reason |-> ""]
              ELSE IF ~override.is_dict
              THEN [status |-> "error", error |-> "ValueError: weekly_overrides[day] must be a dict",
                    is_operational |-> <<>>, reason |-> ""]
              ELSE IF OverrideNotFixed(os, oe)
              THEN [status |-> "error", error |-> "NotImplementedError: weekly_overrides fixed_time only",
                    is_operational |-> <<>>, reason |-> ""]
              ELSE IF OverrideNotSameDay(ostart_min, oend_min)
              THEN [status |-> "error", error |-> "ValueError: weekly_overrides[day] end_time must be after start_time",
                    is_operational |-> <<>>, reason |-> ""]
              ELSE ApplyWeeklyOverrides(t, ow, weekday_ok,
                       [i \in DOMAIN mask |->
                           IF DtWeekday(t[i]) = d
                           THEN OverrideRow(weekday_ok[i], o_time_ok(i))
                           ELSE mask[i]],
                       k + 1)

build_operational_mask_fixed_time(df, ow, time_col) ==
    LET MaskErr(msg) == [status |-> "error", error |-> msg,
                         is_operational |-> <<>>, reason |-> ""]
        tb == ow.time_bounds
    IN  IF time_col \notin df.columns
        THEN MaskErr("ValueError: DataFrame missing required time column")
        ELSE IF ~df.tz_aware
        THEN MaskErr("ValueError: time column must be timezone-aware datetimes")
        ELSE IF tb.start # "fixed_time" \/ tb.end # "fixed_time"
        THEN MaskErr("NotImplementedError: fixed_time -> fixed_time only")
        ELSE IF tb.start_time = <<>> \/ tb.end_time = <<>>
        THEN MaskErr("ValueError: fixed_time -> fixed_time requires start_time and end_time")
        ELSE
          LET t == [i \in DOMAIN df.rows |-> df.rows[i].time_local]
              s == _parse_hhmm(tb.start_time)
              e == _parse_hhmm(tb.end_time)
              allowed_weekdays == _weekdays_set(ow)
              weekday_ok == [i \in DOMAIN t |-> DtWeekday(t[i]) \in allowed_weekdays]
              minutes(i) == DtHour(t[i]) * 60 + DtMinute(t[i])
              start_min == s.hh * 60 + s.mm
              end_min   == e.hh * 60 + e.mm
              time_ok == [i \in DOMAIN t |-> TimeOk(minutes(i), start_min, end_min)]
              base_mask == [i \in DOMAIN t |-> weekday_ok[i] /\ time_ok[i]]
          IN  IF NotSameDay(start_min, end_min)
              THEN MaskErr("ValueError: fixed_time window must have end_time after start_time (same-day window)")
              ELSE IF ~ow.weekly_overrides.is_dict
              THEN MaskErr("ValueError: weekly_overrides must be a dict if provided")
              ELSE IF Len(ow.weekly_overrides.items) = 0
              THEN [status |-> "ok", error |-> "", is_operational |-> base_mask,
                    reason |-> "fixed_time"]
              ELSE ApplyWeeklyOverrides(t, ow, weekday_ok, base_mask, 1)

---------------------------------------------------------------------------
(* opticlimate/evaluate/thresholds.py                                      *)

NoBounds == [is_dict |-> TRUE, min |-> <<>>, max |-> <<>>]

\* (min, max) of weather_thresholds[scenario][param]; a missing scenario,
\* a missing parameter or a non-dict block gives (None, None)
_bounds_for_BaseOnly(weather_thresholds, param, scenario) ==
    LET per_scen == IF "base" \in DOMAIN weather_thresholds
                    THEN weather_thresholds["base"]
                    ELSE << >>
        bounds   == IF param \in DOMAIN per_scen THEN per_scen[param] ELSE NoBounds
    IN  IF ~bounds.is_dict
        THEN [mn |-> <<>>, mx |-> <<>>]
        ELSE [mn |-> bounds.min, mx |-> bounds.max]

_bounds_for(weather_thresholds, param, scenario) ==
    LET per_scen == IF scenario \in DOMAIN weather_thresholds
                    THEN weather_thresholds[scenario]
                    ELSE << >>
        bounds   == IF param \in DOMAIN per_scen THEN per_scen[param] ELSE NoBounds
    IN  IF ~bounds.is_dict
        THEN [mn |-> <<>>, mx |-> <<>>]
        ELSE [mn |-> bounds.min, mx |-> bounds.max]

\* pandas comparisons: NaN compares False with everything
SeriesGE_Flipped(v, x) == ~IsNone(v) /\ Get(v) <= x

SeriesGE_Strict(v, x) == ~IsNone(v) /\ Get(v) > x

SeriesGE(v, x) == ~IsNone(v) /\ Get(v) >= x

SeriesLE_NaNPasses(v, x) == IsNone(v) \/ Get(v) <= x

SeriesLE(v, x) == ~IsNone(v) /\ Get(v) <= x

\* the per-parameter ok mask of one row
ParamOk(v, b) ==
    /\ (IsNone(b.mn) \/ SeriesGE(v, Get(b.mn)))
    /\ (IsNone(b.mx) \/ SeriesLE(v, Get(b.mx)))

\* the `for p in required_parameters` attribution loop, from item k on
RECURSIVE LimitingLoop_Overwrite(_, _, _, _, _)
LimitingLoop_Overwrite(required_parameters, fail_matrix, limiting, any_fail, k) ==
    IF k > Len(required_parameters)
    THEN limiting
    ELSE
      LET p == required_parameters[k]
          limiting2 == [i \in DOMAIN limiting |->
                           IF any_fail[i] /\ fail_matrix[p][i] THEN Some(p) ELSE limiting[i]]
      IN  LimitingLoop_Overwrite(required_parameters, fail_matrix, limiting2, any_fail, k + 1)

\* mutant: the attribution loop starts at the second required parameter
RECURSIVE LimitingLoop_SkipFirst(_, _, _, _, _)
LimitingLoop_SkipFirst(required_parameters, fail_matrix, limiting, any_fail, k) ==
    IF k > Len(required_parameters)
    THEN limiting
    ELSE
      LET p == required_parameters[k]
          limiting2 == [i \in DOMAIN limiting |->
                           IF k > 1 /\ any_fail[i] /\ fail_matrix[p][i]
                           THEN Some(p) ELSE limiting[i]]
          any_fail2 == [i \in DOMAIN limiting |-> any_fail[i] /\ IsNone(limiting2[i])]
      IN  LimitingLoop_SkipFirst(required_parameters, fail_matrix, limiting2, any_fail2, k + 1)

RECURSIVE LimitingLoop(_, _, _, _, _)
LimitingLoop(required_parameters, fail_matrix, limiting, any_fail, k) ==
    IF k > Len(required_parameters)
    THEN limiting
    ELSE
      LET p == required_parameters[k]
          limiting2 == [i \in DOMAIN limiting |->
                           IF any_fail[i] /\ fail_matrix[p][i] THEN Some(p) ELSE limiting[i]]
          any_fail2 == [i \in DOMAIN limiting |-> any_fail[i] /\ IsNone(limiting2[i])]
      IN  LimitingLoop(required_parameters, fail_matrix, limiting2, any_fail2, k + 1)

CountTrue(flags) == Cardinality({ i \in DOMAIN flags : flags[i] })

EvalErr(scenario, msg) ==
    [status |-> "error", error |-> msg, scenario |-> scenario,
     is_workable |-> <<>>, param_ok |-> << >>, limiting_param |-> <<>>,
     summary |-> [total_hours |-> 0, operational_hours |-> 0, workable_hours |-> 0]]

\* evaluate_thresholds after its column checks
EvaluateRows(df, required_parameters, weather_thresholds, scenario, operational_col) ==
    LET idx == DOMAIN df.rows
        op  == [i \in idx |-> df.rows[i][operational_col]]
        params == Range(required_parameters)
        param_ok == [p \in params |->
                       [i \in idx |->
                           ParamOk(df.rows[i].vals[p],
                                   _bounds_for(weather_thresholds, p, scenario))]]
        all_ok == [i \in idx |-> \A p \in params : param_ok[p][i]]
        is_workable == [i \in idx |-> op[i] /\ all_ok[i]]
        fail_matrix == [p \in params |-> [i \in idx |-> ~param_ok[p][i]]]
        any_fail == [i \in idx |-> \E p \in params : fail_matrix[p][i]]
        limiting == IF params = {}
                    THEN <<>>
                    ELSE Some(LimitingLoop(required_parameters, fail_matrix,
                                           [i \in idx |-> <<>>], any_fail, 1))
    IN  [status |-> "ok", error |-> "", scenario |-> scenario,
         is_workable |-> is_workable, param_ok |-> param_ok,
         limiting_param |-> limiting,
         summary |-> [total_hours |-> Len(df.rows),
                      operational_hours |-> CountTrue(op),
                      workable_hours |-> CountTrue(is_workable)]]

\* the same evaluation with absent parameter columns skipped instead of raised
evaluate_thresholds_SkipMissing(df, required_parameters, weather_thresholds, scenario, operational_col) ==
    IF operational_col \notin df.columns
    THEN EvalErr(scenario, "ValueError: Missing required operational column")
    ELSE EvaluateRows(df, SelectSeq(required_parameters, LAMBDA p : p \in df.columns),
                      weather_thresholds, scenario, operational_col)

evaluate_thresholds(df, required_parameters, weather_thresholds, scenario, operational_col) ==
    IF operational_col \notin df.columns
    THEN EvalErr(scenario, "ValueError: Missing required operational column")
    ELSE IF \E p \in Range(required_parameters) : p \notin df.columns
    THEN EvalErr(scenario, "ValueError: DataFrame missing required weather parameter column")
    ELSE EvaluateRows(df, required_parameters, weather_thresholds, scenario, operational_col)

---------------------------------------------------------------------------
(* opticlimate/config/thresholds.py, normalize.py, validate.py             *)
(* (the weather_thresholds part of normalize_config and validate_config)   *)

\* scen_out[param_id] = bounds if isinstance(bounds, dict) else {}
normalize_weather_thresholds(weather_thresholds) ==
    [scen \in DOMAIN weather_thresholds |->
        [param \in DOMAIN weather_thresholds[scen] |->
            IF weather_thresholds[scen][param].is_dict
            THEN weather_thresholds[scen][param]
            ELSE NoBounds]]

\* cfg["weather_thresholds"] = normalize_weather_thresholds(...), then
\* setdefault(scen, {}) for every configured scenario
normalize_config(raw) ==
    LET wt == normalize_weather_thresholds(raw.weather_thresholds)
    IN  [raw EXCEPT !.weather_thresholds =
            [scen \in DOMAIN wt \cup Range(raw.scenarios) |->
                IF scen \in DOMAIN wt THEN wt[scen] ELSE << >>]]

\* the ConfigError raised on the thresholds blocks, if any
validate_config(config) ==
    LET wt == config.weather_thresholds
    IN  IF DOMAIN wt \ Range(config.scenarios) # {}
        THEN [status |-> "error",
              error |-> "ConfigError: weather_thresholds contains scenarios not in cfg.scenarios"]
        ELSE IF \E scen \in DOMAIN wt : \E param \in DOMAIN wt[scen] : ~wt[scen][param].is_dict
        THEN [status |-> "error", error |-> "ConfigError: weather_thresholds.scen.param must be a dict"]
        ELSE IF \E scen \in DOMAIN wt : \E param \in DOMAIN wt[scen] :
                   /\ wt[scen][param].min # <<>>
                   /\ wt[scen][param].max # <<>>
                   /\ wt[scen][param].min[1] > wt[scen][param].max[1]
        THEN [status |-> "error", error |-> "ConfigError: must satisfy min <= max"]
        ELSE [status |-> "ok", error |-> ""]

---------------------------------------------------------------------------
(* opticlimate/classify/classify.py                                        *)

LIMITING_PARAM_UNKNOWN == "unknown"

\* the steps of classify_baseline, kept apart so that the internal results
\* (mask, evaluation) can be recorded next to the returned table
ClassifyOpMask(df, config, time_local_col) ==
    build_operational_mask_fixed_time(df, config.operational_window, time_local_col)

\* df.rename(columns={"operational_flag": "is_operational"}) after
\* df["scenario_id"] = scenario_id and df["operational_flag"] = op_mask
ClassifyEvalInput(df, mask, scenario_id) ==
    [columns  |-> df.columns \cup {"scenario_id", "is_operational"},
     tz_aware |-> df.tz_aware,
     rows     |-> [i \in DOMAIN df.rows |->
                     [time_utc |-> df.rows[i].time_utc,
                      time_local |-> df.rows[i].time_local,
                      vals |-> df.rows[i].vals,
                      scenario_id |-> scenario_id,
                      is_operational |-> mask.is_operational[i]]]]

\* mutant: every parameter with a thresholds entry for the scenario is
\* evaluated, after the required ones
ClassifyEval_AllConfigured(df, config, mask, scenario_id) ==
    LET wt    == config.weather_thresholds
        extra == SelectSeq(<<"temperature", "wind_speed">>,
                           LAMBDA p : /\ p \notin Range(config.required_parameters)
                                      /\ p \in df.columns
                                      /\ scenario_id \in DOMAIN wt
                                      /\ p \in DOMAIN wt[scenario_id])
    IN  evaluate_thresholds(ClassifyEvalInput(df, mask, scenario_id),
                            config.required_parameters \o extra, wt,
                            scenario_id, "is_operational")

ClassifyEval(df, config, mask, scenario_id) ==
    evaluate_thresholds(ClassifyEvalInput(df, mask, scenario_id),
                        config.required_parameters, config.weather_thresholds,
                        scenario_id, "is_operational")

\* workable = eval_out.is_workable & df["operational_flag"]
WorkableFlag(is_workable_i, operational_i) == is_workable_i /\ operational_i

\* df["loss_flag"] = df["operational_flag"] & (~df["workable_flag"])
LossFlag_NotWorkable(operational_i, workable_i) == ~workable_i

LossFlag(operational_i, workable_i) == operational_i /\ ~workable_i

\* limiting.where(loss_flag, None), then
\* limiting.mask(loss_flag & limiting.isna(), "unknown")
LimitingParam_KeepAll(loss_i, limiting_i) ==
    IF loss_i /\ IsNone(limiting_i) THEN Some(LIMITING_PARAM_UNKNOWN) ELSE limiting_i

LimitingParam(loss_i, limiting_i) ==
    LET nulled == IF loss_i THEN limiting_i ELSE <<>>
    IN  IF loss_i /\ IsNone(nulled) THEN Some(LIMITING_PARAM_UNKNOWN) ELSE nulled

ClassifyErr(msg) == [status |-> "error", error |-> msg, columns |-> {}, rows |-> <<>>]

\* one row of the returned table: the input row plus the columns assigned by
\* df["scenario_id"], df["operational_flag"], df["workable_flag"],
\* df["loss_flag"], df["limiting_param"], df["is_operational"], df["is_workable"]
ClassifiedRow_OperationalFromWorkable(row, scenario_id, operational_i, workable_i, loss_i, limiting_i) ==
    [time_utc |-> row.time_utc,
     time_local |-> row.time_local,
     vals |-> row.vals,
     scenario_id |-> scenario_id,
     operational_flag |-> workable_i,
     workable_flag |-> workable_i,
     loss_flag |-> loss_i,
     limiting_param |-> limiting_i,
     is_operational |-> workable_i,
     is_workable |-> workable_i]

ClassifiedRow(row, scenario_id, operational_i, workable_i, loss_i, limiting_i) ==
    [time_utc |-> row.time_utc,
     time_local |-> row.time_local,
     vals |-> row.vals,
     scenario_id |-> scenario_id,
     operational_flag |-> operational_i,
     workable_flag |-> workable_i,
     loss_flag |-> loss_i,
     limiting_param |-> limiting_i,
     is_operational |-> operational_i,
     is_workable |-> workable_i]

classify_baseline(df_in, config, scenario_id, time_local_col, time_utc_col) ==
    IF time_local_col \notin df_in.columns
    THEN ClassifyErr("ValueError: truth_df missing required time_local column")
    ELSE IF time_utc_col \notin df_in.columns
    THEN ClassifyErr("ValueError: truth_df missing required time_utc column")
    ELSE
      LET mask == ClassifyOpMask(df_in, config, time_local_col)
      IN  IF mask.status = "error" THEN ClassifyErr(mask.error)
          ELSE
            LET ev == ClassifyEval(df_in, config, mask, scenario_id)
            IN  IF ev.status = "error" THEN ClassifyErr(ev.error)
                ELSE
                  LET idx == DOMAIN df_in.rows
                      operational_flag == mask.is_operational
                      workable == [i \in idx |-> WorkableFlag(ev.is_workable[i], operational_flag[i])]
                      loss == [i \in idx |-> LossFlag(operational_flag[i], workable[i])]
                      limiting0 == IF IsNone(ev.limiting_param)
                                   THEN [i \in idx |-> <<>>]
                                   ELSE Get(ev.limiting_param)
                      limiting2 == [i \in idx |-> LimitingParam(loss[i], limiting0[i])]
                  IN  [status |-> "ok", error |-> "",
                       columns |-> df_in.columns \cup
                                   {"scenario_id", "operational_flag", "workable_flag",
                                    "loss_flag", "limiting_param", "is_operational",
                                    "is_workable"},
                       rows |-> [i \in idx |->
                                   ClassifiedRow(df_in.rows[i], scenario_id,
                                                 operational_flag[i], workable[i],
                                                 loss[i], limiting2[i])]]

\* df = truth_df.copy() (line 48): the frame that receives the column
\* assignments of lines 49-95 is a new object.  Mutant: no copy is taken and
\* the working frame is the caller's table itself.
CopyIsNewObject_Alias == FALSE

CopyIsNewObject == TRUE

\* The working frame df at the point where classify_baseline returns or raises:
\* nothing is assigned before the time-column checks, scenario_id before the
\* window evaluator is called, operational_flag before the threshold evaluator
\* is called (on a renamed copy), the remaining columns before the return.
WorkingFrameAfter(df_in, config, scenario_id, time_local_col, time_utc_col) ==
    IF time_local_col \notin df_in.columns \/ time_utc_col \notin df_in.columns
    THEN df_in
    ELSE
      LET mask == ClassifyOpMask(df_in, config, time_local_col)
          df1  == [columns  |-> df_in.columns \cup {"scenario_id"},
                   tz_aware |-> df_in.tz_aware,
                   rows     |-> [i \in DOMAIN df_in.rows |->
                                   [scenario_id |-> scenario_id] @@ df_in.rows[i]]]
      IN  IF mask.status = "error" THEN df1
          ELSE
            LET ev  == ClassifyEval(df_in, config, mask, scenario_id)
                df2 == [columns  |-> df1.columns \cup {"operational_flag"},
                        tz_aware |-> df_in.tz_aware,
                        rows     |-> [i \in DOMAIN df_in.rows |->
                                        [operational_flag |-> mask.is_operational[i]]
                                        @@ df1.rows[i]]]
                out == classify_baseline(df_in, config, scenario_id,
                                         time_local_col, time_utc_col)
            IN  IF ev.status = "error" THEN df2
                ELSE [columns |-> out.columns, tz_aware |-> df_in.tz_aware,
                      rows |-> out.rows]

\* The caller's table after the call.
InputAfterClassify(df_in, config, scenario_id, time_local_col, time_utc_col) ==
    IF CopyIsNewObject
    THEN df_in
    ELSE WorkingFrameAfter(df_in, config, scenario_id, time_local_col, time_utc_col)

---------------------------------------------------------------------------
(* opticlimate/report/aggregate_core.py                                    *)

\* a number of hours, counted in units of 3 seconds (1/1200 hour)
Hours(h) == 1200 * h

\* sorted() / sort_values order of the scenario ids in use
ScenarioOrder == <<"base", "baseline", "optimistic">>

ScenarioRank(s) == CHOOSE k \in DOMAIN ScenarioOrder : ScenarioOrder[k] = s

SortedScenarios(S) == SelectSeq(ScenarioOrder, LAMBDA s : s \in S)

\* s.fillna(False).astype(bool) on one cell
_as_bool(v) == v = TRUE

\* the rows of one scenario, in table order
ScenarioRows(rows, scenario_col, scen) == SelectSeq(rows, LAMBDA r : r[scenario_col] = scen)

_summary_for_LostFromTotal(sub, operational_col, workable_col) ==
    LET total_hours == Len(sub)
        op == Cardinality({ i \in DOMAIN sub : _as_bool(sub[i][operational_col]) })
        wk == Cardinality({ i \in DOMAIN sub : _as_bool(sub[i][workable_col]) })
    IN  [total_hours |-> total_hours,
         operational_hours |-> op,
         workable_hours |-> wk,
         schedule_lost_hours |-> total_hours - op,
         weather_lost_hours |-> total_hours - wk]

\* the counts of one summary row (the derived percentages are left out)
_summary_for(sub, operational_col, workable_col) ==
    LET total_hours == Len(sub)
        op == Cardinality({ i \in DOMAIN sub : _as_bool(sub[i][operational_col]) })
        wk == Cardinality({ i \in DOMAIN sub : _as_bool(sub[i][workable_col]) })
    IN  [total_hours |-> total_hours,
         operational_hours |-> op,
         workable_hours |-> wk,
         schedule_lost_hours |-> total_hours - op,
         weather_lost_hours |-> op - wk]

\* one row per scenario, sorted by scenario id; one row without scenario id if
\* the table has no scenario column
summary_run(df, operational_col, workable_col, scenario_col) ==
    IF scenario_col \in df.columns
    THEN LET scens == SortedScenarios({ df.rows[i][scenario_col] : i \in DOMAIN df.rows })
         IN  [k \in DOMAIN scens |->
                 [scenario_id |-> Some(scens[k])] @@
                 _summary_for(ScenarioRows(df.rows, scenario_col, scens[k]),
                              operational_col, workable_col)]
    ELSE << [scenario_id |-> NoneV] @@ _summary_for(df.rows, operational_col, workable_col) >>

---------------------------------------------------------------------------
(* opticlimate/report/aggregate_streaks.py                                 *)

RECURSIVE SetToSortedSeq(_)
SetToSortedSeq(S) ==
    IF S = {} THEN <<>>
    ELSE LET m == CHOOSE x \in S : \A y \in S : x <= y
         IN  <<m>> \o SetToSortedSeq(S \ {m})

\* ascending sort of a sequence of numbers
RECURSIVE SortNums(_)
SortNums(d) ==
    IF Len(d) <= 1 THEN d
    ELSE LET sorted == SortNums(SubSeq(d, 1, Len(d) - 1))
             x      == d[Len(d)]
             pos    == Cardinality({ j \in DOMAIN sorted : sorted[j] <= x })
         IN  SubSeq(sorted, 1, pos) \o <<x>> \o SubSeq(sorted, pos + 1, Len(sorted))

\* mutant: the lower of the two middle values instead of their mean
Median_LowerMiddle(d) ==
    LET sd == SortNums(d)
        n  == Len(sd)
    IN  20 * sd[(n + 1) \div 2]

\* the median of a non-empty sequence of minute counts, in units of 3 seconds
Median(d) ==
    LET sd == SortNums(d)
        n  == Len(sd)
    IN  IF n % 2 = 1 THEN 20 * sd[(n + 1) \div 2]
        ELSE 10 * (sd[n \div 2] + sd[n \div 2 + 1])

Diffs(u) == [k \in 1..(Len(u) - 1) |-> u[k + 1] - u[k]]

\* the same inference without drop_duplicates()
_infer_timestep_hours_KeepDuplicates(ts) ==
    LET u     == SortNums(ts)
        diffs == Diffs(u)
    IN  IF Len(u) <= 1 THEN Hours(1)
        ELSE LET step == Median(diffs)
             IN  IF step <= 0 THEN Hours(1) ELSE step

\* ts.dropna().drop_duplicates().sort_values(), median of the differences
_infer_timestep_hours(ts) ==
    LET u     == SetToSortedSeq(Range(ts))
        diffs == Diffs(u)
    IN  IF Len(u) <= 1 THEN Hours(1)
        ELSE LET step == Median(diffs)
             IN  IF step <= 0 THEN Hours(1) ELSE step

\* df.sort_values([scenario_col, time_utc_col]) (stable)
RowBefore(a, b, scenario_col, time_utc_col) ==
    \/ ScenarioRank(a[scenario_col]) < ScenarioRank(b[scenario_col])
    \/ /\ a[scenario_col] = b[scenario_col]
       /\ a[time_utc_col] < b[time_utc_col]

\* mutant: the rows are taken in their input order
SortValues_Unsorted(rows, scenario_col, time_utc_col) == rows

RECURSIVE SortValues(_, _, _)
SortValues(rows, scenario_col, time_utc_col) ==
    IF Len(rows) <= 1 THEN rows
    ELSE LET sorted == SortValues(SubSeq(rows, 1, Len(rows) - 1), scenario_col, time_utc_col)
             x      == rows[Len(rows)]
             pos    == Cardinality({ j \in DOMAIN sorted :
                                        ~RowBefore(x, sorted[j], scenario_col, time_utc_col) })
         IN  SubSeq(sorted, 1, pos) \o <<x>> \o SubSeq(sorted, pos + 1, Len(sorted))

\* streaks["duration_hours"] = streaks["n_steps"] * float(timestep_hours)
DurationHours_Fencepost(n_steps, timestep_hours) == (n_steps - 1) * timestep_hours

DurationHours(n_steps, timestep_hours) == n_steps * timestep_hours

\* the boundary mask of the sorted rows: value flip, scenario flip or a gap of
\* more than 1.5 nominal steps to the previous row of the same scenario
StreakBoundary_GapInclusive(rows, i, timestep_hours, time_utc_col, value_col, scenario_col) ==
    IF i = 1 THEN TRUE
    ELSE LET value_flip == rows[i][value_col] # rows[i - 1][value_col]
             scen_flip  == rows[i][scenario_col] # rows[i - 1][scenario_col]
             dt_minutes == rows[i][time_utc_col] - rows[i - 1][time_utc_col]
             gap_break  == ~scen_flip /\ 2 * (20 * dt_minutes) >= 3 * timestep_hours
         IN  value_flip \/ scen_flip \/ gap_break

StreakBoundary(rows, i, timestep_hours, time_utc_col, value_col, scenario_col) ==
    IF i = 1 THEN TRUE
    ELSE LET value_flip == rows[i][value_col] # rows[i - 1][value_col]
             scen_flip  == rows[i][scenario_col] # rows[i - 1][scenario_col]
             dt_minutes == rows[i][time_utc_col] - rows[i - 1][time_utc_col]
             gap_break  == ~scen_flip /\ 2 * (20 * dt_minutes) > 3 * timestep_hours
         IN  value_flip \/ scen_flip \/ gap_break

_compute_streaks(rows_in, time_utc_col, value_col, scenario_col) ==
    LET rows == SortValues(rows_in, scenario_col, time_utc_col)
        timestep_hours == _infer_timestep_hours([i \in DOMAIN rows |-> rows[i][time_utc_col]])
        boundary == [i \in DOMAIN rows |->
                        StreakBoundary(rows, i, timestep_hours, time_utc_col,
                                       value_col, scenario_col)]
        streak_id(i) == Cardinality({ j \in 1..i : boundary[j] })
        n_streaks == Cardinality({ j \in DOMAIN rows : boundary[j] })
        members(k) == { i \in DOMAIN rows : streak_id(i) = k }
        first(k) == CHOOSE i \in members(k) : \A j \in members(k) : i <= j
        last(k)  == CHOOSE i \in members(k) : \A j \in members(k) : i >= j
    IN  [timestep_hours |-> timestep_hours,
         streaks |-> [k \in 1..n_streaks |->
                        [scenario_id |-> rows[first(k)][scenario_col],
                         streak_id |-> k,
                         start_ts |-> rows[first(k)][time_utc_col],
                         end_ts |-> rows[last(k)][time_utc_col],
                         value |-> rows[first(k)][value_col],
                         duration_hours |-> DurationHours(Cardinality(members(k)),
                                                          timestep_hours)]]]

\* df.empty of the filtered table
DfEmpty_Never(rows) == FALSE

DfEmpty(rows) == Len(rows) = 0

\* the two `if ..._col not in df.columns: raise KeyError` checks
MissingStreakColumn(columns, time_utc_col, workable_col) ==
    time_utc_col \notin columns \/ workable_col \notin columns

StreaksErr(msg) == [status |-> "error", error |-> msg, timestep_hours |-> 0,
                    summary_run |-> <<>>,
                    streaks_nonworkable_operational |-> <<>>,
                    streaks_workable_operational |-> <<>>,
                    streaks_summary_operational |-> <<>>]

\* three empty DataFrames
EmptyStreaks == [status |-> "ok", error |-> "", timestep_hours |-> 0,
                 summary_run |-> <<>>,
                 streaks_nonworkable_operational |-> <<>>,
                 streaks_workable_operational |-> <<>>,
                 streaks_summary_operational |-> <<>>]

MaxOf(S) == CHOOSE x \in S : \A y \in S : y <= x

\* mutant: no selection by value
StreaksWithValue_All(streaks, v) ==
    [k \in DOMAIN streaks |->
        [scenario_id |-> streaks[k].scenario_id,
         streak_id |-> streaks[k].streak_id,
         start_ts |-> streaks[k].start_ts,
         end_ts |-> streaks[k].end_ts,
         duration_hours |-> streaks[k].duration_hours]]

\* all_streaks[all_streaks["value"] == v].drop(columns=["value"])
StreaksWithValue(streaks, v) ==
    LET sel == SelectSeq(streaks, LAMBDA st : st.value = v)
    IN  [k \in DOMAIN sel |->
            [scenario_id |-> sel[k].scenario_id,
             streak_id |-> sel[k].streak_id,
             start_ts |-> sel[k].start_ts,
             end_ts |-> sel[k].end_ts,
             duration_hours |-> sel[k].duration_hours]]

\* Series.quantile(q) with linear interpolation, q in tenths: the value at
\* position (n - 1) * q of the sorted durations
Quantile(d, q10) ==
    LET sd     == SortNums(d)
        h10    == q10 * (Len(sd) - 1)
        lo     == (h10 \div 10) + 1
        frac10 == h10 % 10
    IN  IF frac10 = 0 THEN sd[lo]
        ELSE sd[lo] + (frac10 * (sd[lo + 1] - sd[lo])) \div 10

\* the duration_hours column of one scenario's rows of a streak table
DurationsOf(streaks, scen) ==
    LET sel == SelectSeq(streaks, LAMBDA st : st.scenario_id = scen)
    IN  [k \in DOMAIN sel |-> sel[k].duration_hours]

\* one summary row per scenario that has a blocked streak
StreaksSummary(scens, blocked, workable) ==
    LET with_blocked == SelectSeq(scens, LAMBDA sc :
                            \E k \in DOMAIN blocked : blocked[k].scenario_id = sc)
    IN  [n \in DOMAIN with_blocked |->
            LET scen == with_blocked[n]
                gk == { k \in DOMAIN blocked : blocked[k].scenario_id = scen }
                g  == { blocked[k].duration_hours : k \in gk }
                wk == { k \in DOMAIN workable : workable[k].scenario_id = scen }
            IN  [scenario_id |-> scen,
                 n_blocked_streaks |-> Cardinality(gk),
                 longest_blocked_hours |-> MaxOf(g),
                 p50_blocked_hours |-> Quantile(DurationsOf(blocked, scen), 5),
                 p90_blocked_hours |-> Quantile(DurationsOf(blocked, scen), 9),
                 count_blocked_ge_6h |->
                     Cardinality({ k \in gk : blocked[k].duration_hours >= Hours(6) }),
                 count_blocked_ge_12h |->
                     Cardinality({ k \in gk : blocked[k].duration_hours >= Hours(12) }),
                 count_blocked_ge_24h |->
                     Cardinality({ k \in gk : blocked[k].duration_hours >= Hours(24) }),
                 n_workable_streaks |-> Cardinality(wk),
                 longest_workable_hours |->
                     IF wk = {} THEN 0
                     ELSE MaxOf({ workable[k].duration_hours : k \in wk }),
                 p50_workable_hours |->
                     IF wk = {} THEN 0 ELSE Quantile(DurationsOf(workable, scen), 5),
                 p90_workable_hours |->
                     IF wk = {} THEN 0 ELSE Quantile(DurationsOf(workable, scen), 9)]]

\* mutant: no restriction to operational rows
OperationalRows_All(rows, operational_col) == rows

\* df = classified_df[classified_df[operational_col] == True]
OperationalRows(rows, operational_col) ==
    SelectSeq(rows, LAMBDA r : r[operational_col] = TRUE)

aggregate_streaks_operational(classified_df, time_utc_col, operational_col, workable_col, scenario_col) ==
    IF operational_col \notin classified_df.columns
    THEN StreaksErr("KeyError: Expected column operational_flag in classified_df")
    ELSE
      LET df_rows == OperationalRows(classified_df.rows, operational_col)
      IN  IF DfEmpty(df_rows)
          THEN EmptyStreaks
          ELSE IF MissingStreakColumn(classified_df.columns, time_utc_col, workable_col)
          THEN StreaksErr("KeyError: Expected column in classified_df")
          ELSE
            LET rows == IF scenario_col \in classified_df.columns
                        THEN df_rows
                        ELSE [i \in DOMAIN df_rows |->
                                 [df_rows[i] EXCEPT ![scenario_col] = "baseline"]]
                all_streaks == _compute_streaks(rows, time_utc_col, workable_col, scenario_col)
                blocked  == StreaksWithValue(all_streaks.streaks, FALSE)
                workable == StreaksWithValue(all_streaks.streaks, TRUE)
                scens == SortedScenarios({ rows[i][scenario_col] : i \in DOMAIN rows })
            IN  [status |-> "ok", error |-> "",
                 timestep_hours |-> all_streaks.timestep_hours,
                 summary_run |-> <<>>,
                 streaks_nonworkable_operational |-> blocked,
                 streaks_workable_operational |-> workable,
                 streaks_summary_operational |-> StreaksSummary(scens, blocked, workable)]

---------------------------------------------------------------------------
(* opticlimate/report/build.py, opticlimate/pipeline/run.py                *)

HOURLY_REQUIRED_COLUMNS ==
    {"time_utc", "time_local", "is_operational", "is_workable", "limiting_param"}

\* pd.concat(classified_parts, axis=0, ignore_index=True)
RECURSIVE ConcatRows(_, _)
ConcatRows(parts, k) ==
    IF k > Len(parts) THEN <<>>
    ELSE parts[k].rows \o ConcatRows(parts, k + 1)

Concat(parts) ==
    [status |-> "ok", error |-> "",
     columns |-> UNION { parts[k].columns : k \in DOMAIN parts },
     rows |-> ConcatRows(parts, 1)]

\* the summary_run table and the three streak tables of the bundle
build_core_bundle(hourly_df, operational_col, workable_col, scenario_col) ==
    IF Len(hourly_df.rows) = 0
    THEN StreaksErr("SchemaError: Hourly dataframe is empty")
    ELSE IF ~(HOURLY_REQUIRED_COLUMNS \subseteq hourly_df.columns)
    THEN StreaksErr("SchemaError: Hourly dataframe missing required columns")
    ELSE
      LET streak_tables == aggregate_streaks_operational(
                               hourly_df, "time_utc", "operational_flag",
                               "workable_flag", scenario_col)
      IN  IF streak_tables.status = "error" THEN streak_tables
          ELSE [streak_tables EXCEPT
                   !.summary_run = summary_run(hourly_df, operational_col,
                                               workable_col, scenario_col)]

---------------------------------------------------------------------------
(* Input domains                                                           *)

MaxRows == 2

AllScenarios == {"base", "optimistic"}

\* local timestamp of weekday/day number d (0 = Monday of week one) at hh:mm
At(d, hh, mm) == d * 1440 + hh * 60 + mm

\* strictly increasing timelines of at most n timestamps drawn from S
Timelines(S, n) ==
    { tl \in SeqsUpTo(S, n) : \A i \in DOMAIN tl : \A j \in DOMAIN tl : i < j => tl[i] < tl[j] }

\* the project timezone of the input slices is UTC: time_local = time_utc
Frame(pcols, rows) ==
    [columns |-> {"time_utc", "time_local"} \cup pcols, tz_aware |-> TRUE, rows |-> rows]

HHMM(a, b, c, d) == <<a, b, ":", c, d>>

FixedBounds(st, et) ==
    [start |-> "fixed_time", end |-> "fixed_time", start_time |-> st, end_time |-> et]

Override(d, st, et) ==
    [day_key |-> d, is_dict |-> TRUE, start |-> Some("fixed_time"), end |-> Some("fixed_time"),
     start_time |-> st, end_time |-> et]

Dict(items) == [is_dict |-> TRUE, items |-> items]

Bounds(mn, mx) == [is_dict |-> TRUE, min |-> mn, max |-> mx]

\* ---- window slice: rich schedule policy, one scenario, weather never blocks
WindowTimes ==
    { At(0, 8, 30), At(0, 9, 0), At(0, 12, 0), At(0, 17, 0),
      At(5, 6, 0), At(5, 9, 0), At(5, 21, 59), At(7, 9, 0) }

WindowCalendars ==
    { [calendar_model |-> "all_days", weekdays |-> <<>>],
      [calendar_model |-> "mon_fri",  weekdays |-> <<>>],
      [calendar_model |-> "custom",   weekdays |-> <<0, 1, 2, 3, 4>>],
      [calendar_model |-> "custom",   weekdays |-> <<5, 0>>] }

WindowTimeBounds ==
    { FixedBounds(HHMM(0,9,0,0), HHMM(1,7,0,0)),
      FixedBounds(HHMM(0,8,3,0), HHMM(1,2,0,0)),
      FixedBounds(HHMM(2,2,0,0), HHMM(0,6,0,0)),
      FixedBounds(HHMM(1,2,0,0), HHMM(1,2,0,0)),
      FixedBounds(<<>>, HHMM(1,7,0,0)),
      [start |-> "sunrise", end |-> "fixed_time", start_time |-> <<>>,
       end_time |-> HHMM(1,7,0,0)] }

WindowOverrides ==
    { <<>>,
      << Override(0, Some(HHMM(0,9,0,0)), Some(HHMM(1,2,0,0))) >>,
      << Override(5, Some(HHMM(0,6,0,0)), Some(HHMM(2,2,0,0))) >>,
      << Override(0, NoneV, Some(HHMM(1,2,0,0))) >>,
      << Override(5, Some(HHMM(1,7,0,0)), Some(HHMM(0,9,0,0))) >>,
      << Override(7, Some(HHMM(0,9,0,0)), Some(HHMM(1,2,0,0))) >>,
      << Override(0, Some(HHMM(0,9,0,0)), Some(HHMM(1,2,0,0))),
         Override(5, Some(HHMM(0,6,0,0)), Some(HHMM(2,2,0,0))) >> }

InitWindow ==
    /\ \E tl \in Timelines(WindowTimes, MaxRows) :
         truth_df = Frame({"temperature"},
                          [i \in DOMAIN tl |->
                              [time_utc |-> tl[i], time_local |-> tl[i],
                               vals |-> [p \in {"temperature"} |-> Some(1)]]])
    /\ \E cal \in WindowCalendars, tb \in WindowTimeBounds, wo \in WindowOverrides :
         cfg = [operational_window |->
                   [calendar_model |-> cal.calendar_model, weekdays |-> cal.weekdays,
                    daylight_model |-> "none", time_bounds |-> tb,
                    weekly_overrides |-> Dict(wo)],
                required_parameters |-> <<"temperature">>,
                weather_thresholds |->
                   [s \in {"base"} |-> [p \in {"temperature"} |-> Bounds(Some(1), Some(2))]],
                scenarios |-> <<"base">>]

\* ---- threshold slice: 09:00-17:00 every day, an hourly timeline from
\* Monday 08:00 (first hour outside the window), rich bounds and values
TempValues == { NoneV, Some(0), Some(1), Some(2), Some(3) }
WindValues == { Some(1), Some(2) }

TempBounds == { Bounds(NoneV, NoneV), Bounds(Some(1), NoneV), Bounds(NoneV, Some(2)),
                Bounds(Some(1), Some(2)) }

\* per-scenario maps: wind_speed either has no entry or a max
BaseTempOnly == { [p \in {"temperature"} |-> tb] : tb \in TempBounds }

BaseTempWind ==
    { [p \in {"temperature", "wind_speed"} |->
          IF p = "temperature" THEN tb ELSE Bounds(NoneV, Some(1))] : tb \in TempBounds }

OptimisticThresholds ==
    [p \in {"temperature", "wind_speed"} |->
        IF p = "temperature" THEN Bounds(Some(0), Some(3)) ELSE Bounds(NoneV, Some(2))]

\* "optimistic" has no thresholds block at all, or a looser one than "base"
ThresholdMaps ==
    { [s \in {"base"} |-> b] : b \in BaseTempOnly } \cup
    { [s \in {"base", "optimistic"} |-> IF s = "base" THEN b ELSE OptimisticThresholds] :
         b \in BaseTempWind }

RequiredLists ==
    { <<>>, <<"temperature">>, <<"temperature", "wind_speed">>,
      <<"wind_speed", "temperature">> }

InitThresholds ==
    /\ \E vs \in SeqsUpTo(TempValues \X WindValues, MaxRows) :
         truth_df = Frame({"temperature", "wind_speed"},
                          [i \in DOMAIN vs |->
                              [time_utc |-> At(0, 7 + i, 0), time_local |-> At(0, 7 + i, 0),
                               vals |-> [p \in {"temperature", "wind_speed"} |->
                                           IF p = "temperature" THEN vs[i][1] ELSE vs[i][2]]]])
    /\ \E req \in RequiredLists, wt \in ThresholdMaps :
         cfg = [operational_window |->
                   [calendar_model |-> "all_days", weekdays |-> <<>>,
                    daylight_model |-> "none",
                    time_bounds |-> FixedBounds(HHMM(0,9,0,0), HHMM(1,7,0,0)),
                    weekly_overrides |-> Dict(<<>>)],
                required_parameters |-> req,
                weather_thresholds |-> wt,
                scenarios |-> <<"base", "optimistic">>]


\* ---- report slice: 09:00-17:00 every day, base [1, 2] within optimistic
\* [0, 3], timelines with hourly and two-hourly spacing and a gap
MaxHours == 3

ReportTimes ==
    { At(0, 8, 0), At(0, 9, 0), At(0, 10, 0), At(0, 11, 0), At(0, 13, 0), At(0, 17, 0) }

ReportValues == { NoneV, Some(1), Some(3) }

ReportScenarios == { <<"base">>, <<"base", "optimistic">> }

InitReport ==
    /\ \E tl \in Timelines(ReportTimes, MaxHours) :
         \E vs \in [DOMAIN tl -> ReportValues] :
            truth_df = Frame({"temperature"},
                             [i \in DOMAIN tl |->
                                 [time_utc |-> tl[i], time_local |-> tl[i],
                                  vals |-> [p \in {"temperature"} |-> vs[i]]]])
    /\ \E scens \in ReportScenarios :
         cfg = [operational_window |->
                   [calendar_model |-> "all_days", weekdays |-> <<>>,
                    daylight_model |-> "none",
                    time_bounds |-> FixedBounds(HHMM(0,9,0,0), HHMM(1,7,0,0)),
                    weekly_overrides |-> Dict(<<>>)],
                required_parameters |-> <<"temperature">>,
                weather_thresholds |->
                   [s \in {"base", "optimistic"} |->
                       [p \in {"temperature"} |->
                           IF s = "base" THEN Bounds(Some(1), Some(2))
                           ELSE Bounds(Some(0), Some(3))]],
                scenarios |-> scens]

\* ---- streak slice: a classified table handed to the streak aggregator
\* directly, with any flags, any subset of (scenario, timestamp) rows, in
\* time order, possibly lacking a column
MaxStreakRows == 3

StreakTimes == { At(0, 9, 0), At(0, 10, 0), At(0, 11, 0), At(0, 14, 0) }

StreakScenarios == { "base", "optimistic" }

StreakColumns == {"time_utc", "time_local", "scenario_id", "operational_flag", "workable_flag"}

\* the tables over at most n distinct (scenario, timestamp) rows, in time
\* order, with (operational_flag, workable_flag) of each row drawn from Flags
StreakTablesOver(n, Flags) ==
    LET Keys == { K \in SUBSET (StreakTimes \X StreakScenarios) : Cardinality(K) <= n }
        Code(key) == key[1] * Len(ScenarioOrder) + ScenarioRank(key[2]) - 1
        KeyOf(code) == << code \div Len(ScenarioOrder),
                          ScenarioOrder[(code % Len(ScenarioOrder)) + 1] >>
        TimeMajor(K) == LET cs == SetToSortedSeq({ Code(key) : key \in K })
                        IN  [i \in DOMAIN cs |-> KeyOf(cs[i])]
        RowsOf(K, fl) == LET ks == TimeMajor(K)
                         IN  [i \in DOMAIN ks |->
                                [time_utc |-> ks[i][1], time_local |-> ks[i][1],
                                 scenario_id |-> ks[i][2],
                                 operational_flag |-> fl[ks[i]][1],
                                 workable_flag |-> fl[ks[i]][2]]]
    IN  UNION { { RowsOf(K, fl) : fl \in [K -> Flags] } : K \in Keys }

StreakTables(n) == StreakTablesOver(n, BOOLEAN \X BOOLEAN)

\* the flag pairs of a classified table (workable implies operational)
ClassifiedFlags == { <<TRUE, TRUE>>, <<TRUE, FALSE>>, <<FALSE, FALSE>> }

\* classified tables, rows in time order (scenarios interleaved)
OrderTables(n) == StreakTablesOver(n, ClassifiedFlags)

\* ---- configuration slice: thresholds blocks as loaded, among them a
\* non-dict bounds block and a block with min > max; every row operational
NonDictBounds == [is_dict |-> FALSE, min |-> NoneV, max |-> NoneV]

RawTempBlocks == { Bounds(Some(1), Some(2)), Bounds(Some(2), Some(1)), NonDictBounds }

RawThresholdMaps ==
    { [s \in {"base"} |-> [p \in {"temperature"} |-> b]] : b \in RawTempBlocks } \cup
    { [s \in {"base", "optimistic"} |->
          [p \in {"temperature"} |-> IF s = "base" THEN b ELSE o]] :
         b \in RawTempBlocks, o \in RawTempBlocks }

InitConfig ==
    /\ \E vs \in SeqsUpTo(TempValues, MaxRows) :
         truth_df = Frame({"temperature"},
                          [i \in DOMAIN vs |->
                              [time_utc |-> At(0, 8 + i, 0), time_local |-> At(0, 8 + i, 0),
                               vals |-> [p \in {"temperature"} |-> vs[i]]]])
    /\ \E wt \in RawThresholdMaps :
         cfg = [operational_window |->
                   [calendar_model |-> "all_days", weekdays |-> <<>>,
                    daylight_model |-> "none",
                    time_bounds |-> FixedBounds(HHMM(0,9,0,0), HHMM(1,7,0,0)),
                    weekly_overrides |-> Dict(<<>>)],
                required_parameters |-> <<"temperature">>,
                weather_thresholds |-> wt,
                scenarios |-> <<"base", "optimistic">>]

\* ---- error slice: tables lacking a column or timezone, unsupported window
\* kinds in the default bounds or in an override, a required parameter that
\* the table does not carry
ErrorTimes == { At(0, 9, 0), At(0, 18, 0), At(5, 10, 0) }

ErrorColumnSets ==
    { {"time_utc", "time_local", "temperature"}, {"time_utc", "temperature"},
      {"time_local", "temperature"}, {"time_utc", "time_local"} }

ErrorTimeBounds ==
    { FixedBounds(HHMM(0,9,0,0), HHMM(1,7,0,0)),
      [start |-> "sunrise", end |-> "fixed_time", start_time |-> <<>>,
       end_time |-> HHMM(1,7,0,0)],
      [start |-> "fixed_time", end |-> "sunset", start_time |-> HHMM(0,9,0,0),
       end_time |-> <<>>] }

OverrideKinds(d, os, oe, st, et) ==
    [day_key |-> d, is_dict |-> TRUE, start |-> os, end |-> oe,
     start_time |-> st, end_time |-> et]

ErrorOverrides ==
    { <<>>,
      << Override(0, Some(HHMM(0,9,0,0)), Some(HHMM(1,2,0,0))) >>,
      << OverrideKinds(5, Some("sunrise"), NoneV, NoneV, Some(HHMM(1,2,0,0))) >>,
      << Override(0, Some(HHMM(0,9,0,0)), Some(HHMM(1,2,0,0))),
         OverrideKinds(5, NoneV, Some("sunset"), Some(HHMM(0,9,0,0)), NoneV) >> }
    \cup { << Override(d, Some(HHMM(1,2,0,0)), et) >> :
             d \in 0..6, et \in { Some(HHMM(0,8,0,0)), Some(HHMM(1,2,0,0)), NoneV } }

ErrorRequiredLists == { <<"temperature">>, <<"temperature", "wind_speed">> }

InitErrors ==
    /\ \E tl \in Timelines(ErrorTimes, MaxRows), cols \in ErrorColumnSets, tz \in BOOLEAN :
         truth_df = [columns |-> cols, tz_aware |-> tz,
                     rows |-> [i \in DOMAIN tl |->
                                 [c \in {"time_utc", "time_local"} \cap cols |-> tl[i]] @@
                                 [vals |-> [p \in {"temperature"} \cap cols |-> Some(1)]]]]
    /\ \E req \in ErrorRequiredLists, tb \in ErrorTimeBounds, wo \in ErrorOverrides :
         cfg = [operational_window |->
                   [calendar_model |-> "all_days", weekdays |-> <<>>,
                    daylight_model |-> "none", time_bounds |-> tb,
                    weekly_overrides |-> Dict(wo)],
                required_parameters |-> req,
                weather_thresholds |->
                   [s \in {"base"} |-> [p \in {"temperature"} |-> Bounds(Some(1), Some(2))]],
                scenarios |-> <<"base">>]

---------------------------------------------------------------------------
(* State machine                                                           *)

NoMask == [status |-> "none", error |-> "", is_operational |-> <<>>, reason |-> ""]

NoEval(s) == [status |-> "none", error |-> "", scenario |-> s,
              is_workable |-> <<>>, param_ok |-> << >>, limiting_param |-> <<>>,
              summary |-> [total_hours |-> 0, operational_hours |-> 0, workable_hours |-> 0]]

NoTable == [status |-> "none", error |-> "", columns |-> {}, rows |-> <<>>]

NotValidated(raw) == [raw |-> raw, status |-> "none", error |-> ""]

NoTables == [status |-> "none", error |-> "", timestep_hours |-> 0,
             summary_run |-> <<>>,
             streaks_nonworkable_operational |-> <<>>,
             streaks_workable_operational |-> <<>>,
             streaks_summary_operational |-> <<>>]

InitResults ==
    /\ op_mask = NoMask
    /\ eval_out = [s \in AllScenarios |-> NoEval(s)]
    /\ classified = [s \in AllScenarios |-> NoTable]
    /\ hourly = NoTable
    /\ tables = NoTables
    /\ config_load = NotValidated(cfg)

Init == (InitWindow \/ InitThresholds) /\ InitResults

\* a direct call of the operational window evaluator on the timeline
BuildOperationalMask ==
    /\ op_mask.status = "none"
    /\ op_mask' = build_operational_mask_fixed_time(truth_df, cfg.operational_window,
                                                    "time_local")
    /\ UNCHANGED <<truth_df, cfg, eval_out, classified, hourly, tables, config_load>>

\* one iteration of the pipeline's `for scen in scenarios` loop (not reached
\* when validate_config has raised), or a direct call of classify_baseline
ClassifyBaseline(s) ==
    /\ classified[s].status = "none"
    /\ config_load.status # "error"
    /\ LET mask == ClassifyOpMask(truth_df, cfg, "time_local")
           reached_mask == {"time_local", "time_utc"} \subseteq truth_df.columns
       IN  /\ classified' = [classified EXCEPT
                               ![s] = classify_baseline(truth_df, cfg, s,
                                                        "time_local", "time_utc")]
           /\ op_mask' = IF reached_mask THEN mask ELSE op_mask
           /\ eval_out' = IF reached_mask /\ mask.status = "ok"
                          THEN [eval_out EXCEPT ![s] = ClassifyEval(truth_df, cfg, mask, s)]
                          ELSE eval_out
    /\ truth_df' = InputAfterClassify(truth_df, cfg, s, "time_local", "time_utc")
    /\ UNCHANGED <<cfg, hourly, tables, config_load>>

Next ==
    \/ BuildOperationalMask
    \/ \E s \in Range(cfg.scenarios) : ClassifyBaseline(s)

Spec == Init /\ [][Next]_vars

\* the same machine started from the schedule inputs only
WindowInit == InitWindow /\ InitResults

SpecWindow == WindowInit /\ [][Next]_vars

\* the same machine started from the threshold inputs only
ThresholdsInit == InitThresholds /\ InitResults

SpecThresholds == ThresholdsInit /\ [][Next]_vars

\* the same machine started from the malformed inputs only
ErrorsInit == InitErrors /\ InitResults

SpecErrors == ErrorsInit /\ [][Next]_vars

\* the report stage of the pipeline: concatenate the classified parts of all
\* configured scenarios and build the bundle tables
BuildCoreBundle ==
    /\ tables.status = "none"
    /\ \A s \in Range(cfg.scenarios) : classified[s].status = "ok"
    /\ LET parts == [k \in DOMAIN cfg.scenarios |-> classified[cfg.scenarios[k]]]
       IN  /\ hourly' = Concat(parts)
           /\ tables' = build_core_bundle(Concat(parts), "is_operational",
                                          "is_workable", "scenario_id")
    /\ UNCHANGED <<truth_df, cfg, op_mask, eval_out, classified, config_load>>

NextReport ==
    \/ \E s \in Range(cfg.scenarios) : ClassifyBaseline(s)
    \/ BuildCoreBundle

\* the pipeline from classification to the report tables
ReportInit == InitReport /\ InitResults

SpecReport == ReportInit /\ [][NextReport]_vars

InitStreaks ==
    /\ \/ \E rows \in StreakTables(MaxStreakRows) :
             hourly = [status |-> "ok", error |-> "", columns |-> StreakColumns,
                       rows |-> rows]
       \/ \E rows \in StreakTables(MaxRows) :
             \E c \in {"time_utc", "scenario_id", "operational_flag", "workable_flag"} :
                hourly = [status |-> "ok", error |-> "", columns |-> StreakColumns \ {c},
                          rows |-> rows]
    /\ truth_df = Frame({}, <<>>)
    /\ cfg = [scenarios |-> <<>>]
    /\ op_mask = NoMask
    /\ eval_out = [s \in AllScenarios |-> NoEval(s)]
    /\ classified = [s \in AllScenarios |-> NoTable]
    /\ tables = NoTables
    /\ config_load = NotValidated(cfg)

\* a direct call of the streak aggregator on a classified table
AggregateStreaksOperational ==
    /\ tables.status = "none"
    /\ hourly.status = "ok"
    /\ tables' = aggregate_streaks_operational(hourly, "time_utc", "operational_flag",
                                               "workable_flag", "scenario_id")
    /\ UNCHANGED <<truth_df, cfg, op_mask, eval_out, classified, hourly, config_load>>

NextStreaks == AggregateStreaksOperational

SpecStreaks == InitStreaks /\ [][NextStreaks]_vars

\* the same call on classified tables, whose row orders are then permuted
InitStreakOrder ==
    /\ \/ \E rows \in OrderTables(MaxStreakRows) :
             hourly = [status |-> "ok", error |-> "", columns |-> StreakColumns,
                       rows |-> rows]
       \/ \E rows \in OrderTables(MaxRows) :
             hourly = [status |-> "ok", error |-> "",
                       columns |-> StreakColumns \ {"scenario_id"}, rows |-> rows]
    /\ truth_df = Frame({}, <<>>)
    /\ cfg = [scenarios |-> <<>>]
    /\ op_mask = NoMask
    /\ eval_out = [s \in AllScenarios |-> NoEval(s)]
    /\ classified = [s \in AllScenarios |-> NoTable]
    /\ tables = NoTables
    /\ config_load = NotValidated(cfg)

SpecStreakOrder == InitStreakOrder /\ [][NextStreaks]_vars

\* run_pipeline's cfg = normalize_config(raw); validate_config(cfg)
NormalizeAndValidate ==
    /\ config_load.status = "none"
    /\ \A s \in AllScenarios : classified[s].status = "none"
    /\ cfg' = normalize_config(cfg)
    /\ config_load' = [raw |-> config_load.raw] @@ validate_config(normalize_config(cfg))
    /\ UNCHANGED <<truth_df, op_mask, eval_out, classified, hourly, tables>>

NextConfig ==
    \/ NormalizeAndValidate
    \/ \E s \in Range(cfg.scenarios) : ClassifyBaseline(s)

\* classification of a configuration as loaded, with or without the
\* normalize-then-validate step in front
ConfigInit == InitConfig /\ InitResults

SpecConfig == ConfigInit /\ [][NextConfig]_vars

\* ---- hourly slice: a gap-free hourly timeline from Monday 00:00 through the
\* pipeline, with a same-day window of one, two or eight hours every day
MaxTimelineHours == 36

HourlyWindows ==
    { FixedBounds(HHMM(0,9,0,0), HHMM(1,0,0,0)), FixedBounds(HHMM(0,9,0,0), HHMM(1,1,0,0)),
      FixedBounds(HHMM(0,9,0,0), HHMM(1,7,0,0)) }

InitHourly ==
    /\ \E n \in 1..MaxTimelineHours, v \in { Some(1), Some(3) } :
         truth_df = Frame({"temperature"},
                          [i \in 1..n |->
                              [time_utc |-> At(0, 0, 0) + 60 * (i - 1),
                               time_local |-> At(0, 0, 0) + 60 * (i - 1),
                               vals |-> [p \in {"temperature"} |-> v]]])
    /\ \E tb \in HourlyWindows, scens \in { <<"base">>, <<"base", "optimistic">> } :
         cfg = [operational_window |->
                   [calendar_model |-> "all_days", weekdays |-> <<>>,
                    daylight_model |-> "none", time_bounds |-> tb,
                    weekly_overrides |-> Dict(<<>>)],
                required_parameters |-> <<"temperature">>,
                weather_thresholds |->
                   [s \in {"base", "optimistic"} |->
                       [p \in {"temperature"} |->
                           IF s = "base" THEN Bounds(Some(1), Some(2))
                           ELSE Bounds(Some(0), Some(3))]],
                scenarios |-> scens]

HourlyInit == InitHourly /\ InitResults

SpecHourly == HourlyInit /\ [][NextReport]_vars

---------------------------------------------------------------------------
(* Properties                                                              *)

Rows(s) == classified[s].rows
Required == Range(cfg.required_parameters)

\* the bounds block configured for (scenario, parameter), if any
ConfiguredMin(s, p) ==
    IF s \in DOMAIN cfg.weather_thresholds /\ p \in DOMAIN cfg.weather_thresholds[s]
    THEN cfg.weather_thresholds[s][p].min ELSE <<>>
ConfiguredMax(s, p) ==
    IF s \in DOMAIN cfg.weather_thresholds /\ p \in DOMAIN cfg.weather_thresholds[s]
    THEN cfg.weather_thresholds[s][p].max ELSE <<>>

\* value v satisfies the bounds of (s, p); a null value satisfies no active bound
Satisfies(v, s, p) ==
    /\ (ConfiguredMin(s, p) = <<>> \/ (v # <<>> /\ v[1] >= ConfiguredMin(s, p)[1]))
    /\ (ConfiguredMax(s, p) = <<>> \/ (v # <<>> /\ v[1] <= ConfiguredMax(s, p)[1]))

\* C1: in every row of a classified table, workable_flag implies
\* operational_flag and loss_flag = (operational_flag AND NOT workable_flag).
C1_FlagInvariants ==
    \A s \in AllScenarios :
        classified[s].status = "ok" =>
            \A i \in DOMAIN Rows(s) :
                /\ Rows(s)[i].workable_flag => Rows(s)[i].operational_flag
                /\ Rows(s)[i].loss_flag <=>
                       (Rows(s)[i].operational_flag /\ ~Rows(s)[i].workable_flag)

\* a table holding a non-operational row and a loss row, another a workable row
C1_Witness ==
    /\ \E s \in AllScenarios :
          /\ classified[s].status = "ok"
          /\ \E i \in DOMAIN Rows(s) : Rows(s)[i].loss_flag
          /\ \E i \in DOMAIN Rows(s) : ~Rows(s)[i].operational_flag
    /\ \E s \in AllScenarios :
          /\ classified[s].status = "ok"
          /\ \E i \in DOMAIN Rows(s) : Rows(s)[i].workable_flag

\* C2: in every row of a classified table, limiting_param is non-null if and
\* only if loss_flag is true.
C2_LimitingIffLoss ==
    \A s \in AllScenarios :
        classified[s].status = "ok" =>
            \A i \in DOMAIN Rows(s) :
                (Rows(s)[i].limiting_param # <<>>) <=> Rows(s)[i].loss_flag

\* a loss row with an attribution, next to a non-operational row on which the
\* evaluator did name a failing parameter that the classifier nulled
C2_Witness ==
    \E s \in AllScenarios :
        /\ classified[s].status = "ok"
        /\ eval_out[s].status = "ok"
        /\ eval_out[s].limiting_param # <<>>
        /\ \E i \in DOMAIN Rows(s) :
              Rows(s)[i].loss_flag /\ Rows(s)[i].limiting_param # <<>>
        /\ \E i \in DOMAIN Rows(s) :
              /\ ~Rows(s)[i].operational_flag
              /\ eval_out[s].limiting_param[1][i] # <<>>
              /\ Rows(s)[i].limiting_param = <<>>

\* C3: for scenario s a row is workable exactly when it is operational and
\* every required parameter satisfies weather_thresholds[s][param]; no other
\* scenario's bounds enter the result.
C3_WorkablePerScenario ==
    \A s \in AllScenarios :
        classified[s].status = "ok" =>
            \A i \in DOMAIN Rows(s) :
                Rows(s)[i].workable_flag <=>
                    /\ Rows(s)[i].operational_flag
                    /\ \A p \in Required : Satisfies(Rows(s)[i].vals[p], s, p)

\* the same row is workable under one scenario and blocked under the other
C3_Witness ==
    /\ \A s \in AllScenarios : classified[s].status = "ok"
    /\ \E i \in DOMAIN Rows("base") :
          /\ Rows("optimistic")[i].workable_flag
          /\ ~Rows("base")[i].workable_flag
          /\ Rows("base")[i].operational_flag

\* C4: for a non-null value the per-parameter pass flag is
\* (min unset OR v >= min) AND (max unset OR v <= max), bounds inclusive.
C4_InclusiveBounds ==
    \A s \in AllScenarios :
        eval_out[s].status = "ok" =>
            \A p \in DOMAIN eval_out[s].param_ok :
                \A i \in DOMAIN truth_df.rows :
                    LET v  == truth_df.rows[i].vals[p]
                        mn == ConfiguredMin(s, p)
                        mx == ConfiguredMax(s, p)
                    IN  v # <<>> =>
                            (eval_out[s].param_ok[p][i] <=>
                                /\ (mn = <<>> \/ v[1] >= mn[1])
                                /\ (mx = <<>> \/ v[1] <= mx[1]))

\* one value exactly at min and one exactly at max, both passing
C4_Witness ==
    \E s \in AllScenarios :
        /\ eval_out[s].status = "ok"
        /\ \E p \in DOMAIN eval_out[s].param_ok :
              /\ \E i \in DOMAIN truth_df.rows :
                    /\ ConfiguredMin(s, p) = truth_df.rows[i].vals[p]
                    /\ ConfiguredMin(s, p) # <<>>
                    /\ eval_out[s].param_ok[p][i]
              /\ \E i \in DOMAIN truth_df.rows :
                    /\ ConfiguredMax(s, p) = truth_df.rows[i].vals[p]
                    /\ ConfiguredMax(s, p) # <<>>
                    /\ ConfiguredMax(s, p) # ConfiguredMin(s, p)
                    /\ eval_out[s].param_ok[p][i]

\* C5: a null value passes if and only if neither min nor max is configured;
\* with any active bound it fails and the row is not workable.
C5_NullFailsActiveBound ==
    \A s \in AllScenarios :
        eval_out[s].status = "ok" =>
            \A p \in DOMAIN eval_out[s].param_ok :
                \A i \in DOMAIN truth_df.rows :
                    truth_df.rows[i].vals[p] = <<>> =>
                        /\ eval_out[s].param_ok[p][i] <=>
                               (ConfiguredMin(s, p) = <<>> /\ ConfiguredMax(s, p) = <<>>)
                        /\ ~eval_out[s].param_ok[p][i] =>
                               /\ ~eval_out[s].is_workable[i]
                               /\ classified[s].status = "ok" => ~Rows(s)[i].workable_flag

\* a null fails under a max-only bound in one scenario and passes unbounded in
\* the other
C5_Witness ==
    /\ \A s \in AllScenarios : eval_out[s].status = "ok" /\ classified[s].status = "ok"
    /\ \E i \in DOMAIN truth_df.rows :
          /\ "temperature" \in Required
          /\ truth_df.rows[i].vals["temperature"] = <<>>
          /\ Rows("base")[i].operational_flag
          /\ ConfiguredMin("base", "temperature") = <<>>
          /\ ConfiguredMax("base", "temperature") # <<>>
          /\ ~eval_out["base"].param_ok["temperature"][i]
          /\ eval_out["optimistic"].param_ok["temperature"][i]

\* positions in required_parameters whose parameter fails on row i
FailingPositions(s, i) ==
    { k \in DOMAIN cfg.required_parameters :
          ~eval_out[s].param_ok[cfg.required_parameters[k]][i] }

\* C6: on every loss row limiting_param is the first parameter, in the
\* configured required_parameters order, whose pass flag is false.
C6_FirstFailingInOrder ==
    \A s \in AllScenarios :
        (classified[s].status = "ok" /\ eval_out[s].status = "ok") =>
            \A i \in DOMAIN Rows(s) :
                Rows(s)[i].loss_flag =>
                    /\ FailingPositions(s, i) # {}
                    /\ \E k \in FailingPositions(s, i) :
                          /\ \A j \in FailingPositions(s, i) : k <= j
                          /\ Rows(s)[i].limiting_param = <<cfg.required_parameters[k]>>

\* both parameters fail on a loss row and the order is wind_speed first
C6_Witness ==
    \E s \in AllScenarios :
        /\ classified[s].status = "ok"
        /\ eval_out[s].status = "ok"
        /\ cfg.required_parameters = <<"wind_speed", "temperature">>
        /\ \E i \in DOMAIN Rows(s) :
              /\ Rows(s)[i].loss_flag
              /\ FailingPositions(s, i) = {1, 2}
              /\ Rows(s)[i].limiting_param = <<"wind_speed">>

\* minute-of-day of a clock string "HH:MM"
ClockMinutes(c) == (10 * c[1] + c[2]) * 60 + 10 * c[4] + c[5]

OW == cfg.operational_window
Mask == op_mask.is_operational
LocalTime(i) == truth_df.rows[i].time_local
LocalWeekday(i) == (LocalTime(i) \div 1440) % 7
LocalMinuteOfDay(i) == LocalTime(i) % 1440

DefaultWindowNotSameDay ==
    /\ OW.time_bounds.start_time # <<>>
    /\ OW.time_bounds.end_time # <<>>
    /\ ClockMinutes(OW.time_bounds.end_time) <= ClockMinutes(OW.time_bounds.start_time)

\* C7: when the default window's end minute-of-day is <= its start
\* minute-of-day, the window evaluator raises and produces no mask (and so no
\* classified table), whatever the timeline and the overrides.
C7_CrossMidnightRejected ==
    DefaultWindowNotSameDay =>
        /\ op_mask.status # "ok"
        /\ op_mask.is_operational = <<>>
        /\ \A s \in AllScenarios : classified[s].status # "ok"

\* the evaluator has raised on an end = start window with rows and overrides
C7_Witness ==
    /\ DefaultWindowNotSameDay
    /\ OW.time_bounds.end_time = OW.time_bounds.start_time
    /\ op_mask.status = "error"
    /\ classified["base"].status = "error"
    /\ Len(truth_df.rows) > 0
    /\ Len(OW.weekly_overrides.items) > 0

\* weekdays the calendar model is documented to allow
CalendarAllows(wd) ==
    CASE OW.calendar_model = "all_days" -> TRUE
      [] OW.calendar_model = "mon_fri"  -> wd \in 0..4
      [] OW.calendar_model = "custom"   -> \E k \in DOMAIN OW.weekdays : OW.weekdays[k] = wd

HasOverride(wd) ==
    \E k \in DOMAIN OW.weekly_overrides.items : OW.weekly_overrides.items[k].day_key = wd

\* C8: on an allowed weekday without override a timestamp is operational iff
\* start_minute <= minute-of-day < end_minute.
C8_HalfOpenWindow ==
    op_mask.status = "ok" =>
        \A i \in DOMAIN truth_df.rows :
            (CalendarAllows(LocalWeekday(i)) /\ ~HasOverride(LocalWeekday(i))) =>
                (Mask[i] <=>
                    /\ ClockMinutes(OW.time_bounds.start_time) <= LocalMinuteOfDay(i)
                    /\ LocalMinuteOfDay(i) < ClockMinutes(OW.time_bounds.end_time))

\* a row exactly at start_time is operational, one exactly at end_time is not
C8_Witness ==
    /\ op_mask.status = "ok"
    /\ \E i \in DOMAIN truth_df.rows :
          /\ CalendarAllows(LocalWeekday(i)) /\ ~HasOverride(LocalWeekday(i))
          /\ LocalMinuteOfDay(i) = ClockMinutes(OW.time_bounds.start_time)
          /\ Mask[i]
    /\ \E i \in DOMAIN truth_df.rows :
          /\ CalendarAllows(LocalWeekday(i)) /\ ~HasOverride(LocalWeekday(i))
          /\ LocalMinuteOfDay(i) = ClockMinutes(OW.time_bounds.end_time)
          /\ ~Mask[i]

\* C9: with calendar model mon_fri every timestamp on a Saturday or Sunday
\* gets operational_flag false.
C9_MonFriExcludesWeekend ==
    (OW.calendar_model = "mon_fri" /\ op_mask.status = "ok") =>
        \A i \in DOMAIN truth_df.rows : LocalWeekday(i) \in {5, 6} => ~Mask[i]

\* the window in force on weekday wd: its override, missing fields taken from
\* the default, or else the default
OverrideOf(wd) ==
    OW.weekly_overrides.items[
        CHOOSE k \in DOMAIN OW.weekly_overrides.items :
            OW.weekly_overrides.items[k].day_key = wd]
WindowStart(wd) ==
    IF HasOverride(wd) /\ OverrideOf(wd).start_time # <<>>
    THEN ClockMinutes(OverrideOf(wd).start_time[1])
    ELSE ClockMinutes(OW.time_bounds.start_time)
WindowEnd(wd) ==
    IF HasOverride(wd) /\ OverrideOf(wd).end_time # <<>>
    THEN ClockMinutes(OverrideOf(wd).end_time[1])
    ELSE ClockMinutes(OW.time_bounds.end_time)

\* C10: with calendar model all_days or custom and valid same-day windows,
\* operational(t) = weekday(t) allowed AND minute(t) in [start, end) of the
\* weekday's override if it has one, else of the default window.
C10_OverrideReplacesDefault ==
    (OW.calendar_model \in {"all_days", "custom"} /\ op_mask.status = "ok") =>
        \A i \in DOMAIN truth_df.rows :
            Mask[i] <=>
                /\ CalendarAllows(LocalWeekday(i))
                /\ WindowStart(LocalWeekday(i)) <= LocalMinuteOfDay(i)
                /\ LocalMinuteOfDay(i) < WindowEnd(LocalWeekday(i))

InDefaultWindow(i) ==
    /\ ClockMinutes(OW.time_bounds.start_time) <= LocalMinuteOfDay(i)
    /\ LocalMinuteOfDay(i) < ClockMinutes(OW.time_bounds.end_time)

\* one override shortens its day (a default-window hour is lost) and another
\* extends its day (an hour outside the default window is gained)
C10_Witness ==
    /\ OW.calendar_model \in {"all_days", "custom"}
    /\ op_mask.status = "ok"
    /\ \E i \in DOMAIN truth_df.rows :
          HasOverride(LocalWeekday(i)) /\ InDefaultWindow(i) /\ ~Mask[i]
          /\ CalendarAllows(LocalWeekday(i))
    /\ \E i \in DOMAIN truth_df.rows :
          HasOverride(LocalWeekday(i)) /\ ~InDefaultWindow(i) /\ Mask[i]

\* C11: any two scenarios classified against the same timeline and configuration
\* carry the same operational_flag row by row; the flag is the window
\* evaluator's mask of the timeline, whatever the scenario's thresholds.
C11_OperationalScenarioInvariant ==
    \A s1 \in AllScenarios :
        classified[s1].status = "ok" =>
            /\ op_mask.status = "ok"
            /\ \A i \in DOMAIN Rows(s1) :
                  /\ Rows(s1)[i].operational_flag = Mask[i]
                  /\ \A s2 \in AllScenarios :
                        classified[s2].status = "ok" =>
                            /\ Len(Rows(s2)) = Len(Rows(s1))
                            /\ Rows(s2)[i].time_local = Rows(s1)[i].time_local
                            /\ Rows(s2)[i].operational_flag = Rows(s1)[i].operational_flag

\* both scenarios classified; an operational row is workable under one and
\* blocked under the other, and a second row is outside the window in both
C11_Witness ==
    /\ \A s \in AllScenarios : classified[s].status = "ok"
    /\ \E i \in DOMAIN Rows("base") :
          /\ Rows("base")[i].operational_flag /\ Rows("optimistic")[i].operational_flag
          /\ Rows("base")[i].workable_flag # Rows("optimistic")[i].workable_flag
    /\ \E i \in DOMAIN Rows("base") :
          ~Rows("base")[i].operational_flag /\ ~Rows("optimistic")[i].operational_flag

\* the interval of (a, p) lies within the interval of (b, p)
Within(a, b, p) ==
    /\ \/ ConfiguredMin(b, p) = <<>>
       \/ ConfiguredMin(a, p) # <<>> /\ ConfiguredMin(b, p)[1] <= ConfiguredMin(a, p)[1]
    /\ \/ ConfiguredMax(b, p) = <<>>
       \/ ConfiguredMax(a, p) # <<>> /\ ConfiguredMax(b, p)[1] >= ConfiguredMax(a, p)[1]

WorkableCount(s) == Cardinality({ i \in DOMAIN Rows(s) : Rows(s)[i].workable_flag })

\* C12: if for every required parameter scenario a's allowed interval lies
\* within scenario b's, every row workable under a is workable under b, and a
\* has at most as many workable rows as b.
C12_LooserBoundsMonotone ==
    \A a \in AllScenarios : \A b \in AllScenarios :
        ( /\ classified[a].status = "ok"
          /\ classified[b].status = "ok"
          /\ \A p \in Required : Within(a, b, p) ) =>
            /\ \A i \in DOMAIN Rows(a) : Rows(a)[i].workable_flag => Rows(b)[i].workable_flag
            /\ WorkableCount(a) <= WorkableCount(b)

\* base [1, 2] lies within optimistic [0, 3]; a value at the looser maximum is
\* blocked under base and workable under optimistic, so the counts differ
C12_Witness ==
    /\ \A s \in AllScenarios : classified[s].status = "ok"
    /\ "temperature" \in Required
    /\ \A p \in Required : Within("base", "optimistic", p)
    /\ ConfiguredMin("optimistic", "temperature") # <<>>
    /\ ConfiguredMax("optimistic", "temperature") # <<>>
    /\ ConfiguredMin("base", "temperature") # ConfiguredMin("optimistic", "temperature")
    /\ \E i \in DOMAIN Rows("base") :
          /\ Rows("base")[i].vals["temperature"] = ConfiguredMax("optimistic", "temperature")
          /\ Rows("base")[i].loss_flag /\ Rows("optimistic")[i].workable_flag
    /\ WorkableCount("base") < WorkableCount("optimistic")

\* number of rows of the report's input table, among the rows G, with flag f
FlagCount(G, f) == Cardinality({ i \in G : hourly.rows[i][f] })

ScenarioIndices(scen) == { i \in DOMAIN hourly.rows : hourly.rows[i].scenario_id = scen }

\* C13: over any subset of the rows of a classified table,
\* count(workable) + count(loss) = count(operational) and
\* count(operational) + count(not operational) = count(rows); each summary
\* row's workable_hours + weather_lost_hours = operational_hours and
\* operational_hours + schedule_lost_hours = total_hours, with all five
\* figures equal to the flag counts of the scenario's rows.
C13_AccountingIdentities ==
    tables.status = "ok" =>
        /\ \A G \in SUBSET DOMAIN hourly.rows :
              /\ FlagCount(G, "workable_flag") + FlagCount(G, "loss_flag")
                     = FlagCount(G, "operational_flag")
              /\ FlagCount(G, "operational_flag")
                     + Cardinality({ i \in G : ~hourly.rows[i].operational_flag })
                     = Cardinality(G)
        /\ Len(tables.summary_run) = Len(cfg.scenarios)
        /\ \A k \in DOMAIN tables.summary_run :
              LET r == tables.summary_run[k]
                  G == ScenarioIndices(r.scenario_id[1])
              IN  /\ r.workable_hours + r.weather_lost_hours = r.operational_hours
                  /\ r.operational_hours + r.schedule_lost_hours = r.total_hours
                  /\ r.total_hours = Cardinality(G)
                  /\ r.operational_hours = FlagCount(G, "operational_flag")
                  /\ r.workable_hours = FlagCount(G, "workable_flag")
                  /\ r.weather_lost_hours = FlagCount(G, "loss_flag")
                  /\ r.schedule_lost_hours = Cardinality(G) - FlagCount(G, "operational_flag")

\* a two-scenario summary in which one scenario has schedule-lost, weather-lost
\* and workable hours all at once and the other has different figures
C13_Witness ==
    /\ tables.status = "ok"
    /\ Len(tables.summary_run) = 2
    /\ tables.summary_run[1].schedule_lost_hours > 0
    /\ tables.summary_run[1].weather_lost_hours > 0
    /\ tables.summary_run[1].workable_hours > 0
    /\ tables.summary_run[2].weather_lost_hours # tables.summary_run[1].weather_lost_hours

\* the timestamps of the operational rows of one scenario's classified table
OperationalTimes(scen) ==
    LET sel == SelectSeq(classified[scen].rows, LAMBDA r : r.operational_flag)
    IN  [i \in DOMAIN sel |-> sel[i].time_utc]

HasOperationalRow == \E i \in DOMAIN hourly.rows : hourly.rows[i].operational_flag

BlockedOf(scen) ==
    SelectSeq(tables.streaks_nonworkable_operational, LAMBDA st : st.scenario_id = scen)

\* every scenario's operational rows are exactly T and T + 1h, none workable
TwoBlockedHours(T) ==
    /\ \A scen \in Range(cfg.scenarios) : Range(OperationalTimes(scen)) = {T, T + 60}
    /\ \A i \in DOMAIN hourly.rows : ~hourly.rows[i].workable_flag

\* C14: on a table stacking K scenarios over the same timestamps the nominal
\* step is the step of one scenario alone and never 0; two scenarios over
\* [T, T+1h], both blocked, give one blocked streak of 2.0 hours each.
C14_StepIgnoresDuplicateTimestamps ==
    (tables.status = "ok" /\ HasOperationalRow) =>
        /\ tables.timestep_hours > 0
        /\ \A scen \in Range(cfg.scenarios) :
              tables.timestep_hours = _infer_timestep_hours(OperationalTimes(scen))
        /\ \A T \in ReportTimes :
              TwoBlockedHours(T) =>
                  \A scen \in Range(cfg.scenarios) :
                      /\ Len(BlockedOf(scen)) = 1
                      /\ BlockedOf(scen)[1].duration_hours = Hours(2)
                      /\ BlockedOf(scen)[1].start_ts = T
                      /\ BlockedOf(scen)[1].end_ts = T + 60

\* two scenarios over the same two consecutive hours, both blocked: two
\* streaks of 2.0 hours in the blocked table
C14_Witness ==
    /\ tables.status = "ok"
    /\ cfg.scenarios = <<"base", "optimistic">>
    /\ \E T \in ReportTimes : TwoBlockedHours(T)
    /\ Len(tables.streaks_nonworkable_operational) = 2
    /\ \A k \in DOMAIN tables.streaks_nonworkable_operational :
          tables.streaks_nonworkable_operational[k].duration_hours = Hours(2)

\* the scenario the aggregator files row i under
RowScenario(i) ==
    IF "scenario_id" \in hourly.columns THEN hourly.rows[i].scenario_id ELSE "baseline"

\* streak st of value v covers the operational rows of its scenario that carry
\* the value v and a timestamp within [start_ts, end_ts]
StreakRows(st, v) ==
    { i \in DOMAIN hourly.rows :
         /\ hourly.rows[i].operational_flag
         /\ hourly.rows[i].workable_flag = v
         /\ RowScenario(i) = st.scenario_id
         /\ st.start_ts <= hourly.rows[i].time_utc
         /\ hourly.rows[i].time_utc <= st.end_ts }

AllStreaks ==
    { <<st, FALSE>> : st \in Range(tables.streaks_nonworkable_operational) } \cup
    { <<st, TRUE>> : st \in Range(tables.streaks_workable_operational) }

\* C15: every streak's duration_hours is its number of rows times the nominal
\* step, the step is positive, and a single-row streak lasts exactly one step.
C15_DurationIsRowsTimesStep ==
    (tables.status = "ok" /\ AllStreaks # {}) =>
        /\ tables.timestep_hours > 0
        /\ \A sv \in AllStreaks :
              /\ StreakRows(sv[1], sv[2]) # {}
              /\ sv[1].duration_hours =
                     Cardinality(StreakRows(sv[1], sv[2])) * tables.timestep_hours
              /\ Cardinality(StreakRows(sv[1], sv[2])) = 1 =>
                     sv[1].duration_hours = tables.timestep_hours

\* a two-hourly table: one streak of two rows lasting 4.0 hours and one
\* single-row streak lasting 2.0 hours
C15_Witness ==
    /\ tables.status = "ok"
    /\ tables.timestep_hours = Hours(2)
    /\ \E sv \in AllStreaks :
          /\ Cardinality(StreakRows(sv[1], sv[2])) = 1
          /\ sv[1].duration_hours = Hours(2)
    /\ \E sv \in AllStreaks :
          /\ Cardinality(StreakRows(sv[1], sv[2])) = 2
          /\ sv[1].duration_hours = Hours(4)

\* C16: the streak aggregator raises for every input table that lacks the
\* time_utc or the workable_flag column, whatever rows the table holds.
C16_MissingColumnRaises ==
    (tables.status # "none" /\ ~({"time_utc", "workable_flag"} \subseteq hourly.columns)) =>
        tables.status = "error"

\* C17: for a table that has the operational column but no operational row
\* (a table of zero rows included) the streak aggregator returns three empty
\* tables and raises nothing.
C17_NoOperationalRowsEmptyTables ==
    ( /\ tables.status # "none"
      /\ "operational_flag" \in hourly.columns
      /\ \A i \in DOMAIN hourly.rows : ~hourly.rows[i].operational_flag ) =>
        /\ tables.status = "ok"
        /\ tables.streaks_nonworkable_operational = <<>>
        /\ tables.streaks_workable_operational = <<>>
        /\ tables.streaks_summary_operational = <<>>

\* the aggregator has returned empty tables for two non-operational rows of
\* different scenarios, one of them flagged workable
C17_Witness ==
    /\ tables.status = "ok"
    /\ tables.streaks_nonworkable_operational = <<>>
    /\ tables.streaks_workable_operational = <<>>
    /\ tables.streaks_summary_operational = <<>>
    /\ "operational_flag" \in hourly.columns
    /\ \A i \in DOMAIN hourly.rows : ~hourly.rows[i].operational_flag
    /\ \E i \in DOMAIN hourly.rows : \E j \in DOMAIN hourly.rows :
          /\ hourly.rows[i].scenario_id # hourly.rows[j].scenario_id
          /\ hourly.rows[i].workable_flag

\* the configuration as loaded holds a non-dict bounds block for (s, p)
NonDictBlock(s, p) ==
    /\ s \in DOMAIN config_load.raw.weather_thresholds
    /\ p \in DOMAIN config_load.raw.weather_thresholds[s]
    /\ ~config_load.raw.weather_thresholds[s][p].is_dict

\* C18: a non-dict bounds block for a (scenario, required parameter) pair is
\* never treated as 'no bounds': the classification of that scenario yields no
\* table and the normalize-then-validate path does not accept the
\* configuration.
C18_NonDictBoundsRaise ==
    \A s \in AllScenarios : \A p \in Required :
        NonDictBlock(s, p) =>
            /\ classified[s].status # "ok"
            /\ config_load.status # "ok"

\* some required parameter is not a column of the value table
MissingRequiredColumn == \E p \in Required : p \notin truth_df.columns

\* C19: if any name in required_parameters is not a column of the value
\* table, classification raises and returns no table.
C19_MissingParameterRaises ==
    MissingRequiredColumn =>
        \A s \in AllScenarios :
            /\ classified[s].status # "ok"
            /\ classified[s].rows = <<>>
            /\ eval_out[s].status # "ok"

\* classification has raised the evaluator's missing-parameter error on a
\* table with rows and an otherwise valid configuration: temperature is a
\* column, wind_speed is required and is not
C19_Witness ==
    /\ MissingRequiredColumn
    /\ cfg.required_parameters = <<"temperature", "wind_speed">>
    /\ "temperature" \in truth_df.columns
    /\ Len(truth_df.rows) > 0
    /\ op_mask.status = "ok"
    /\ eval_out["base"].status = "error"
    /\ classified["base"].status = "error"
    /\ classified["base"].error =
          "ValueError: DataFrame missing required weather parameter column"

\* an override names a start or an end other than fixed_time
OverrideNotFixedTime ==
    \E k \in DOMAIN OW.weekly_overrides.items :
        \/ /\ OW.weekly_overrides.items[k].start # <<>>
           /\ OW.weekly_overrides.items[k].start[1] # "fixed_time"
        \/ /\ OW.weekly_overrides.items[k].end # <<>>
           /\ OW.weekly_overrides.items[k].end[1] # "fixed_time"

DefaultNotFixedTime ==
    OW.time_bounds.start # "fixed_time" \/ OW.time_bounds.end # "fixed_time"

\* C20: the window evaluator raises and returns no mask when the time column
\* is absent, when it is not timezone-aware, or when the default time bounds
\* or any weekly override use a start or end other than fixed_time.
C20_WindowEvaluatorRaises ==
    ( \/ "time_local" \notin truth_df.columns
      \/ ~truth_df.tz_aware
      \/ DefaultNotFixedTime
      \/ OverrideNotFixedTime ) =>
        /\ op_mask.status # "ok"
        /\ op_mask.is_operational = <<>>
        /\ \A s \in AllScenarios : classified[s].status # "ok"

\* the evaluator has raised on a timezone-aware table with rows and valid
\* default bounds because the second override ends at sunset
C20_Witness ==
    /\ op_mask.status = "error"
    /\ op_mask.error = "NotImplementedError: weekly_overrides fixed_time only"
    /\ "time_local" \in truth_df.columns
    /\ truth_df.tz_aware
    /\ ~DefaultNotFixedTime
    /\ Len(truth_df.rows) > 0
    /\ Len(OW.weekly_overrides.items) = 2
    /\ OW.weekly_overrides.items[2].end = <<"sunset">>
    /\ OW.weekly_overrides.items[2].start = <<>>

\* ---------------------------------------------------------------------------
\* The k-th weekly override resolved against the defaults, as minutes of day.
OverrideStartMin(k) ==
    LET o == OW.weekly_overrides.items[k]
        c == _parse_hhmm(GetOr(o.start_time, OW.time_bounds.start_time))
    IN  c.hh * 60 + c.mm

OverrideEndMin(k) ==
    LET o == OW.weekly_overrides.items[k]
        c == _parse_hhmm(GetOr(o.end_time, OW.time_bounds.end_time))
    IN  c.hh * 60 + c.mm

\* Some override with a weekday key 0..6 ends at or before its start.
OverrideEndsBeforeStart ==
    /\ OW.time_bounds.start_time # NoneV
    /\ OW.time_bounds.end_time # NoneV
    /\ \E k \in DOMAIN OW.weekly_overrides.items :
         /\ OW.weekly_overrides.items[k].day_key \in 0..6
         /\ OverrideEndMin(k) <= OverrideStartMin(k)

\* C21: a weekly override whose end minute-of-day is less than or equal to its
\* start minute-of-day makes the operational window evaluator raise, for every
\* weekday key 0..6, whether or not a timestamp of the timeline falls on that
\* weekday.
C21_OverrideEndBeforeStartRaises ==
    /\ (op_mask.status # "none" /\ OverrideEndsBeforeStart)
          => op_mask.status = "error"
    /\ \A s \in DOMAIN classified :
         (classified[s].status # "none" /\ OverrideEndsBeforeStart)
            => classified[s].status = "error"

\* Reached: the evaluator was called with well-formed defaults on a timeline
\* with rows, none of them on the weekday of an override whose end equals its
\* start, and raised the override's own error.
C21_Witness ==
    /\ Len(truth_df.rows) > 0
    /\ {"time_utc", "time_local"} \subseteq truth_df.columns
    /\ truth_df.tz_aware
    /\ \E k \in DOMAIN OW.weekly_overrides.items :
         /\ OW.weekly_overrides.items[k].day_key = 3
         /\ OW.time_bounds.start_time # NoneV /\ OW.time_bounds.end_time # NoneV
         /\ OverrideEndMin(k) = OverrideStartMin(k)
         /\ \A i \in DOMAIN truth_df.rows :
              DtWeekday(truth_df.rows[i].time_local) # 3
    /\ op_mask.status = "error"
    /\ op_mask.error = "ValueError: weekly_overrides[day] end_time must be after start_time"


OperationalSorted ==
    LET op == SelectSeq(hourly.rows, LAMBDA r : r.operational_flag = TRUE)
        labelled == [i \in DOMAIN op |->
                        [scenario_id |-> IF "scenario_id" \in hourly.columns
                                         THEN op[i].scenario_id ELSE "baseline",
                         time_utc |-> op[i].time_utc,
                         workable_flag |-> op[i].workable_flag]]
    IN  SortValues(labelled, "scenario_id", "time_utc")

\* the streak (with its value) that holds a sorted operational row
StreakOf(r) ==
    { sv \in AllStreaks :
         /\ sv[2] = r.workable_flag
         /\ sv[1].scenario_id = r.scenario_id
         /\ sv[1].start_ts <= r.time_utc
         /\ r.time_utc <= sv[1].end_ts }

\* rows a and b are at most 1.5 nominal steps apart
WithinOneAndAHalfSteps(a, b) ==
    2 * (b.time_utc - a.time_utc) * Hours(1) <= 3 * 60 * tables.timestep_hours

\* C23: after restricting to operational rows and sorting by (scenario,
\* timestamp), two consecutive rows belong to the same streak if and only if
\* they have the same scenario, the same workable_flag value and a time gap of
\* at most 1.5 times the inferred nominal step; hence every streak has a
\* constant value, belongs to one scenario, has no internal gap larger than 1.5
\* steps, and is maximal.
C23_SameStreakIffNoBoundary ==
    (tables.status = "ok" /\ HasOperationalRow) =>
       LET rows == OperationalSorted
       IN  /\ \A n \in DOMAIN rows : Cardinality(StreakOf(rows[n])) = 1
           /\ \A n \in 1..(Len(rows) - 1) :
                (StreakOf(rows[n]) = StreakOf(rows[n + 1]))
                   <=> /\ rows[n].scenario_id = rows[n + 1].scenario_id
                       /\ rows[n].workable_flag = rows[n + 1].workable_flag
                       /\ WithinOneAndAHalfSteps(rows[n], rows[n + 1])
           /\ \A sv \in AllStreaks :
                \E a, b \in DOMAIN rows :
                   /\ a <= b
                   /\ rows[a].time_utc = sv[1].start_ts
                   /\ rows[b].time_utc = sv[1].end_ts
                   /\ \A n \in a..b : StreakOf(rows[n]) = {sv}
                   /\ \A n \in a..(b - 1) : WithinOneAndAHalfSteps(rows[n], rows[n + 1])

\* Reached: three operational rows of one scenario and one value, the first
\* two in one streak and the third, more than 1.5 steps later, in another.
C23_Witness ==
    /\ tables.status = "ok"
    /\ LET rows == OperationalSorted
       IN  /\ Len(rows) = 3
           /\ rows[1].scenario_id = rows[3].scenario_id
           /\ rows[1].workable_flag = rows[2].workable_flag
           /\ rows[2].workable_flag = rows[3].workable_flag
           /\ StreakOf(rows[1]) = StreakOf(rows[2])
           /\ StreakOf(rows[2]) # StreakOf(rows[3])


\* ---------------------------------------------------------------------------
\* The distinct timestamps of the operational rows, the difference from each of
\* them to the next one, and twice the median of those differences (minutes).
OperationalTimestamps ==
    { hourly.rows[i].time_utc : i \in { j \in DOMAIN hourly.rows :
                                           hourly.rows[j].operational_flag } }

SuccessiveDifference(U) ==
    [a \in { x \in U : \E y \in U : y > x } |->
        (CHOOSE b \in U : b > a /\ \A c \in U : c > a => b <= c) - a]

KthSmallest(f, k) ==
    CHOOSE v \in { f[a] : a \in DOMAIN f } :
        /\ Cardinality({ a \in DOMAIN f : f[a] < v }) < k
        /\ k <= Cardinality({ a \in DOMAIN f : f[a] <= v })

TwiceMedianDifference(U) ==
    LET f == SuccessiveDifference(U)
        n == Cardinality(DOMAIN f)
    IN  KthSmallest(f, (n + 1) \div 2) + KthSmallest(f, (n + 2) \div 2)

\* C24: the nominal step is the median of the successive differences of the
\* distinct sorted operational timestamps; when the operational rows hold at
\* most one distinct timestamp the step is 1.0 hour, so a lone operational row
\* yields one streak of duration 1.0 hour.
C24_StepIsMedianOfOperationalDifferences ==
    (tables.status = "ok" /\ HasOperationalRow) =>
       LET U == OperationalTimestamps
       IN  /\ Cardinality(U) <= 1 => tables.timestep_hours = Hours(1)
           /\ Cardinality(U) > 1 =>
                 2 * 60 * tables.timestep_hours = TwiceMedianDifference(U) * Hours(1)
           /\ tables.timestep_hours > 0
           /\ Cardinality({ i \in DOMAIN hourly.rows : hourly.rows[i].operational_flag }) = 1
                 => /\ Cardinality(AllStreaks) = 1
                    /\ \A sv \in AllStreaks : sv[1].duration_hours = Hours(1)

\* Reached: a table of three rows two hours apart in which a single row is
\* operational, aggregated into one streak of one hour.
C24_Witness ==
    /\ tables.status = "ok"
    /\ Len(hourly.rows) = 3
    /\ Cardinality({ i \in DOMAIN hourly.rows : hourly.rows[i].operational_flag }) = 1
    /\ \A i \in DOMAIN hourly.rows : hourly.rows[i].time_utc \in {At(0, 9, 0), At(0, 11, 0)}
    /\ Cardinality(AllStreaks) = 1
    /\ \A sv \in AllStreaks : sv[1].duration_hours = Hours(1)


\* ---------------------------------------------------------------------------
\* C25: the "unknown" sentinel is unreachable: on every loss row limiting_param
\* is a member of required_parameters whose pass flag is false on that row, and
\* no row carries "unknown".
C25_UnknownUnreachable ==
    \A s \in DOMAIN classified :
        classified[s].status = "ok" =>
            \A i \in DOMAIN Rows(s) :
                /\ Rows(s)[i].limiting_param # Some(LIMITING_PARAM_UNKNOWN)
                /\ Rows(s)[i].loss_flag =>
                      \E p \in Range(cfg.required_parameters) :
                          /\ Rows(s)[i].limiting_param = Some(p)
                          /\ p # LIMITING_PARAM_UNKNOWN
                          /\ ~eval_out[s].param_ok[p][i]

\* Reached: two required parameters and a loss row on which only the first of
\* them fails, attributed to it.
C25_Witness ==
    /\ Len(cfg.required_parameters) = 2
    /\ \E s \in DOMAIN classified :
         /\ classified[s].status = "ok"
         /\ \E i \in DOMAIN Rows(s) :
              /\ Rows(s)[i].loss_flag
              /\ FailingPositions(s, i) = {1}
              /\ Rows(s)[i].limiting_param = Some(cfg.required_parameters[1])


\* ---------------------------------------------------------------------------
\* Each (scenario, timestamp) pair occurs at most once in the table under
\* aggregation.
UniqueScenarioTimestamps ==
    \A i, j \in DOMAIN hourly.rows :
        (RowScenario(i) = RowScenario(j)
            /\ hourly.rows[i].time_utc = hourly.rows[j].time_utc) => i = j

PermuteRows(df, f) == [df EXCEPT !.rows = [i \in DOMAIN df.rows |-> df.rows[f[i]]]]

\* C26: the streak results do not depend on the order of scenarios or rows in
\* the input: when each (scenario, timestamp) pair occurs at most once, every
\* permutation of the rows of the classified table yields the same blocked,
\* workable and summary streak tables.
C26_RowOrderIrrelevant ==
    (tables.status = "ok" /\ "time_utc" \in hourly.columns /\ UniqueScenarioTimestamps) =>
       \A f \in Permutations(DOMAIN hourly.rows) :
          LET other == aggregate_streaks_operational(PermuteRows(hourly, f), "time_utc",
                           "operational_flag", "workable_flag", "scenario_id")
          IN  /\ other.status = "ok"
              /\ other.streaks_nonworkable_operational = tables.streaks_nonworkable_operational
              /\ other.streaks_workable_operational = tables.streaks_workable_operational
              /\ other.streaks_summary_operational = tables.streaks_summary_operational

\* Reached: a table in time order whose scenarios alternate (so that sorting
\* moves rows), with operational rows of two scenarios, blocked and workable.
C26_Witness ==
    /\ tables.status = "ok"
    /\ Len(hourly.rows) = 3
    /\ "scenario_id" \in hourly.columns
    /\ UniqueScenarioTimestamps
    /\ \A i \in DOMAIN hourly.rows : hourly.rows[i].operational_flag
    /\ hourly.rows[1].scenario_id = "optimistic"
    /\ hourly.rows[2].scenario_id = "base"
    /\ hourly.rows[3].scenario_id = "optimistic"
    /\ hourly.rows[1].time_utc < hourly.rows[2].time_utc
    /\ hourly.rows[2].time_utc < hourly.rows[3].time_utc
    /\ Len(tables.streaks_nonworkable_operational) > 0
    /\ Len(tables.streaks_workable_operational) > 0


\* ---------------------------------------------------------------------------
\* Some operational row of the streak's scenario starts it with value v.
StartsWithValue(st, v) ==
    \E i \in DOMAIN hourly.rows :
        /\ hourly.rows[i].operational_flag
        /\ RowScenario(i) = st.scenario_id
        /\ hourly.rows[i].time_utc = st.start_ts
        /\ hourly.rows[i].workable_flag = v

ScenariosOf(streaks) == { streaks[k].scenario_id : k \in DOMAIN streaks }

CountOf(streaks, scen) ==
    Cardinality({ k \in DOMAIN streaks : streaks[k].scenario_id = scen })

\* C27: streaks are split by value into the blocked table (value false) and the
\* workable table (value true); the summary holds exactly one row for each
\* scenario with at least one blocked streak and none for any other scenario;
\* in that row n_blocked_streaks and n_workable_streaks are the scenario's row
\* counts in the two tables, and the workable longest/median/p90 fields are 0
\* when the scenario has no workable streak.
C27_SummaryRowsPerBlockedScenario ==
    (tables.status = "ok" /\ HasOperationalRow) =>
       LET blocked  == tables.streaks_nonworkable_operational
           workable == tables.streaks_workable_operational
           summary  == tables.streaks_summary_operational
       IN  /\ \A k \in DOMAIN blocked : StartsWithValue(blocked[k], FALSE)
           /\ \A k \in DOMAIN workable : StartsWithValue(workable[k], TRUE)
           /\ Len(blocked) + Len(workable) = Cardinality(AllStreaks)
           /\ { summary[n].scenario_id : n \in DOMAIN summary } = ScenariosOf(blocked)
           /\ \A m, n \in DOMAIN summary :
                summary[m].scenario_id = summary[n].scenario_id => m = n
           /\ \A n \in DOMAIN summary :
                /\ summary[n].n_blocked_streaks = CountOf(blocked, summary[n].scenario_id)
                /\ summary[n].n_blocked_streaks > 0
                /\ summary[n].n_workable_streaks = CountOf(workable, summary[n].scenario_id)
                /\ summary[n].n_workable_streaks = 0 =>
                      /\ summary[n].longest_workable_hours = 0
                      /\ summary[n].p50_workable_hours = 0
                      /\ summary[n].p90_workable_hours = 0

\* Reached: one scenario with blocked streaks only (a summary row with zero
\* workable fields) next to a scenario with a workable streak only (no row).
C27_Witness ==
    /\ tables.status = "ok"
    /\ LET blocked  == tables.streaks_nonworkable_operational
           workable == tables.streaks_workable_operational
           summary  == tables.streaks_summary_operational
       IN  /\ ScenariosOf(blocked) = {"base"}
           /\ ScenariosOf(workable) = {"optimistic"}
           /\ CountOf(blocked, "base") = 2
           /\ Len(summary) = 1
           /\ summary[1].scenario_id = "base"
           /\ summary[1].n_workable_streaks = 0
           /\ summary[1].p90_workable_hours = 0
           /\ summary[1].p90_blocked_hours > 0


\* ---------------------------------------------------------------------------
\* The number of rows held by the streaks of one scenario in a streak table
\* (duration_hours is the number of rows times the nominal step).
RECURSIVE StreakRowCount(_, _, _)
StreakRowCount(streaks, scen, k) ==
    IF k > Len(streaks) THEN 0
    ELSE (IF streaks[k].scenario_id = scen
          THEN streaks[k].duration_hours \div tables.timestep_hours ELSE 0)
         + StreakRowCount(streaks, scen, k + 1)

RowsWith(scen, operational, workable) ==
    { i \in DOMAIN hourly.rows :
         /\ RowScenario(i) = scen
         /\ hourly.rows[i].operational_flag = operational
         /\ hourly.rows[i].workable_flag = workable }

\* C28: streaks partition the operational rows: every row with
\* operational_flag true belongs to exactly one streak, of its own scenario and
\* value, no row with operational_flag false belongs to any streak, and for
\* each scenario the blocked (resp. workable) streak row counts sum to its
\* number of loss (resp. workable) operational rows, hence all streak row
\* counts to its number of operational rows.
C28_StreaksPartitionOperationalRows ==
    (tables.status = "ok" /\ HasOperationalRow) =>
       LET blocked  == tables.streaks_nonworkable_operational
           workable == tables.streaks_workable_operational
       IN  /\ \A i \in DOMAIN hourly.rows :
                hourly.rows[i].operational_flag =>
                   Cardinality({ sv \in AllStreaks : i \in StreakRows(sv[1], sv[2]) }) = 1
           /\ \A sv \in AllStreaks :
                /\ sv[1].duration_hours % tables.timestep_hours = 0
                /\ sv[1].duration_hours \div tables.timestep_hours
                      = Cardinality(StreakRows(sv[1], sv[2]))
           /\ \A scen \in ScenariosOf(blocked) \cup ScenariosOf(workable)
                          \cup { RowScenario(i) : i \in DOMAIN hourly.rows } :
                /\ StreakRowCount(blocked, scen, 1) = Cardinality(RowsWith(scen, TRUE, FALSE))
                /\ StreakRowCount(workable, scen, 1) = Cardinality(RowsWith(scen, TRUE, TRUE))
                /\ StreakRowCount(blocked, scen, 1) + StreakRowCount(workable, scen, 1)
                      = Cardinality({ i \in DOMAIN hourly.rows :
                                         RowScenario(i) = scen
                                         /\ hourly.rows[i].operational_flag })

\* Reached: a scenario with a blocked and a workable operational row and a
\* non-operational row between them that no streak counts.
C28_Witness ==
    /\ tables.status = "ok"
    /\ Len(hourly.rows) = 3
    /\ \E scen \in { RowScenario(i) : i \in DOMAIN hourly.rows } :
         /\ \A i \in DOMAIN hourly.rows : RowScenario(i) = scen
         /\ hourly.rows[1].operational_flag /\ ~hourly.rows[1].workable_flag
         /\ ~hourly.rows[2].operational_flag /\ hourly.rows[2].workable_flag
         /\ hourly.rows[3].operational_flag /\ hourly.rows[3].workable_flag
         /\ StreakRowCount(tables.streaks_nonworkable_operational, scen, 1) = 1
         /\ StreakRowCount(tables.streaks_workable_operational, scen, 1) = 1


\* ---------------------------------------------------------------------------
\* The timeline is hourly without a gap.
GapFreeHourly ==
    \A i \in 1..(Len(truth_df.rows) - 1) :
        truth_df.rows[i + 1].time_utc = truth_df.rows[i].time_utc + 60

DayOf(t) == t \div 1440

\* C29: on a gap-free hourly timeline classified with a valid same-day
\* fixed-time window of any length, down to a single operational hour per day,
\* the nominal step inferred by the streak aggregator is 1.0 hour, each streak's
\* duration_hours is the number of operational hourly rows it contains, and no
\* streak joins operational hours of two different days.
C29_HourlyStepUnderAnyWindow ==
    (tables.status = "ok" /\ HasOperationalRow /\ GapFreeHourly) =>
       /\ tables.timestep_hours = Hours(1)
       /\ \A sv \in AllStreaks :
            /\ sv[1].duration_hours = Hours(Cardinality(StreakRows(sv[1], sv[2])))
            /\ DayOf(sv[1].start_ts) = DayOf(sv[1].end_ts)

\* ---------------------------------------------------------------------------
\* The configuration with the bounds of every parameter that is not listed in
\* required_parameters removed from each scenario's thresholds block.
WithoutUnrequiredBounds(config) ==
    LET wt == config.weather_thresholds
    IN  [config EXCEPT !.weather_thresholds =
            [sc \in DOMAIN wt |->
                [p \in DOMAIN wt[sc] \cap Range(config.required_parameters) |-> wt[sc][p]]]]

UnrequiredBound(s, p) ==
    /\ p \notin Range(cfg.required_parameters)
    /\ s \in DOMAIN cfg.weather_thresholds
    /\ p \in DOMAIN cfg.weather_thresholds[s]

\* C30: bounds configured in weather_thresholds[s] for a parameter that is not
\* listed in required_parameters never affect the classification:
\* workable_flag, loss_flag and limiting_param are the same as if those bounds
\* were absent, and limiting_param never names such a parameter.
C30_UnrequiredBoundsIgnored ==
    \A s \in DOMAIN classified :
        classified[s].status = "ok" =>
            LET other == classify_baseline(truth_df, WithoutUnrequiredBounds(cfg), s,
                                           "time_local", "time_utc")
            IN  /\ other.status = "ok"
                /\ \A i \in DOMAIN Rows(s) :
                      /\ Rows(s)[i].workable_flag = other.rows[i].workable_flag
                      /\ Rows(s)[i].loss_flag = other.rows[i].loss_flag
                      /\ Rows(s)[i].limiting_param = other.rows[i].limiting_param
                      /\ \A p \in {"temperature", "wind_speed"} :
                            UnrequiredBound(s, p) => Rows(s)[i].limiting_param # Some(p)

\* Reached: wind_speed is not required, its configured maximum is exceeded on
\* an operational row, and the row is workable all the same.
C30_Witness ==
    \E s \in DOMAIN classified :
        /\ classified[s].status = "ok"
        /\ UnrequiredBound(s, "wind_speed")
        /\ cfg.required_parameters = <<"temperature">>
        /\ \E i \in DOMAIN Rows(s) :
              /\ Rows(s)[i].operational_flag
              /\ Rows(s)[i].workable_flag
              /\ ~IsNone(cfg.weather_thresholds[s]["wind_speed"].max)
              /\ ~IsNone(Rows(s)[i].vals["wind_speed"])
              /\ Get(Rows(s)[i].vals["wind_speed"])
                    > Get(cfg.weather_thresholds[s]["wind_speed"].max)


====
